---- MODULE Spec2Model ----
(***************************************************************************)
(* Model of the metadata-only guardrail of the Snow CLI MCP server:        *)
(* query classification, object-name extraction, exclusion checking,       *)
(* result redaction, the two SQL tools built on them, and the walk of the  *)
(* sync tool over databases, schemas and their objects.                    *)
(*                                                                         *)
(* Texts are TLA+ strings; a character is a string of length one.  The     *)
(* regular expressions of the source are kept as item lists and matched    *)
(* by position sets, so anchoring, case folding and quantifiers behave as  *)
(* they do in the JavaScript engine.                                       *)
(***************************************************************************)
EXTENDS Integers, Sequences, FiniteSets, TLC

VARIABLES
    call,       \* the pending call of a pure function: its name and arguments
    ret,        \* what that call returned (kind "none" before it ran)
    pc,         \* position of the tool handler serving the current request
    request,    \* the tool request being served: tool name and input
    config,     \* getConfig(): exclusion rules and guardrail limits
    executor,   \* the executor's behaviour for this request: exit code, stdout, stderr
    execLog,    \* the query texts handed to executeSQL, in order (for the
                \* sync tool: the argument lists handed to executeSnowCLI)
    response,   \* the tool response (kind "none" until the handler returns)
    remote,     \* the Snowflake account the CLI talks to, as far as sync sees it
    todo,       \* the rest of the sync walk: the loop iterations still to run
    syncResults, \* the SyncResult records pushed so far
    files,      \* the files written under targetDir: path to content
    fsLog,      \* the mkdir and writeFile calls of this request, with their outcome
    previous,   \* the sync runs finished before this one: how many, and the
                \* files as the last of them left them
    env,        \* process.env, as far as the configuration loader reads it
    procs       \* the snow subprocesses spawned for this request, in order:
                \* alive or not, signalled or not, the timer, the promise

vars == <<call, ret, pc, request, config, executor, execLog, response,
          remote, todo, syncResults, files, fsLog, previous, env, procs>>
fnVars == <<call, ret>>
walkVars == <<remote, todo, syncResults, files, fsLog, previous, env>>
syncVars == <<walkVars, procs>>
toolVars == <<pc, request, config, executor, execLog, response, syncVars>>

(***************************************************************************)
(* Characters and strings                                                  *)
(***************************************************************************)
Ch(s, i) == SubSeq(s, i, i)

CharsOf(s) == {Ch(s, i) : i \in 1..Len(s)}

LowerLetters == "abcdefghijklmnopqrstuvwxyz"
UpperLetters == "ABCDEFGHIJKLMNOPQRSTUVWXYZ"
DigitChars == "0123456789"

\* \s of a JavaScript regular expression, also what String.prototype.trim removes
SpaceChars == {" ", "\t", "\n", "\r", "\f"}

\* the characters that "." does not match
LineTerminators == {"\n", "\r"}

LetterIndex(letters, c) == CHOOSE i \in 1..Len(letters) : Ch(letters, i) = c

toUpperCaseChar(c) ==
    IF c \in CharsOf(LowerLetters)
    THEN Ch(UpperLetters, LetterIndex(LowerLetters, c))
    ELSE c

toLowerCaseChar(c) ==
    IF c \in CharsOf(UpperLetters)
    THEN Ch(LowerLetters, LetterIndex(UpperLetters, c))
    ELSE c

RECURSIVE toUpperCase(_)
toUpperCase(s) ==
    IF Len(s) = 0 THEN ""
    ELSE toUpperCaseChar(Ch(s, 1)) \o toUpperCase(Tail(s))

RECURSIVE toLowerCase(_)
toLowerCase(s) ==
    IF Len(s) = 0 THEN ""
    ELSE toLowerCaseChar(Ch(s, 1)) \o toLowerCase(Tail(s))

RECURSIVE TrimStart(_)
TrimStart(s) ==
    IF Len(s) > 0 /\ Ch(s, 1) \in SpaceChars THEN TrimStart(Tail(s)) ELSE s

RECURSIVE TrimEnd(_)
TrimEnd(s) ==
    IF Len(s) > 0 /\ Ch(s, Len(s)) \in SpaceChars
    THEN TrimEnd(SubSeq(s, 1, Len(s) - 1))
    ELSE s

trim(s) == TrimEnd(TrimStart(s))

\* s.includes(sub)
StrIncludes(s, sub) ==
    \E i \in 1..(Len(s) - Len(sub) + 1) : SubSeq(s, i, i + Len(sub) - 1) = sub

\* s.startsWith(sub)
StartsWith(s, sub) ==
    Len(s) >= Len(sub) /\ SubSeq(s, 1, Len(sub)) = sub

\* s.replace(/[...]/g, ''): drop every character of the class
RECURSIVE RemoveChars(_, _)
RemoveChars(s, cls) ==
    IF Len(s) = 0 THEN ""
    ELSE (IF Ch(s, 1) \in cls THEN "" ELSE Ch(s, 1)) \o RemoveChars(Tail(s), cls)

(***************************************************************************)
(* Regular expressions                                                     *)
(*                                                                         *)
(* An item is a character class with a quantifier; a class is a set of     *)
(* characters or the complement of one.  A pattern is a set of             *)
(* alternatives (item lists), with the ^ and $ anchors as flags.           *)
(***************************************************************************)
InClass(c, cls) == IF cls.neg THEN c \notin cls.set ELSE c \in cls.set

Class(set) == [neg |-> FALSE, set |-> set]

One(set) == [cls |-> Class(set), q |-> "1"]
Plus(set) == [cls |-> Class(set), q |-> "+"]
Star(set) == [cls |-> Class(set), q |-> "*"]

WsPlus == Plus(SpaceChars)                                       \* \s+
WsStar == Star(SpaceChars)                                       \* \s*
AnyStar == [cls |-> [neg |-> TRUE, set |-> LineTerminators], q |-> "*"]   \* .*

\* a literal under the i flag: each letter matches in either case
Lit(s) == [i \in 1..Len(s) |->
             One({toUpperCaseChar(Ch(s, i)), toLowerCaseChar(Ch(s, i))})]

\* a literal without the i flag
LitExact(s) == [i \in 1..Len(s) |-> One({Ch(s, i)})]

\* first position from p on whose character is outside the class
RECURSIVE RunEnd(_, _, _)
RunEnd(cls, s, p) ==
    IF p <= Len(s) /\ InClass(Ch(s, p), cls) THEN RunEnd(cls, s, p + 1) ELSE p

\* positions reachable from a position of P by matching one item
StepItem(item, s, P) ==
    CASE item.q = "1" ->
           {p + 1 : p \in {x \in P : x <= Len(s) /\ InClass(Ch(s, x), item.cls)}}
      [] item.q = "+" ->
           UNION {(p + 1)..RunEnd(item.cls, s, p) : p \in P}
      [] item.q = "*" ->
           UNION {p..RunEnd(item.cls, s, p) : p \in P}

\* positions reachable from a position of P by matching items[k..]
RECURSIVE MatchEnds(_, _, _, _)
MatchEnds(items, k, s, P) ==
    IF P = {} \/ k > Len(items) THEN P
    ELSE MatchEnds(items, k + 1, s, StepItem(items[k], s, P))

\* the pattern matches with its first character at position start
MatchesAt(re, s, start) ==
    \E alt \in re.alts :
        \E e \in MatchEnds(alt, 1, s, {start}) : re.eol => e = Len(s) + 1

\* RegExp.prototype.test, for a pattern without the g flag
RegExpTest(re, s) ==
    \E start \in (IF re.bol THEN {1} ELSE 1..(Len(s) + 1)) : MatchesAt(re, s, start)

(***************************************************************************)
(* QueryClassifier                                                         *)
(***************************************************************************)
Aggregates == {"COUNT", "SUM", "AVG", "MIN", "MAX", "COUNT_DISTINCT"}

ScalarPrefixes == {"CURRENT_", "SESSION_", "SYSTEM$"}

SelectLead == <<WsStar>> \o Lit("SELECT") \o <<WsPlus>>

SCALAR_PATTERNS == <<
    [source |-> "^\\s*SELECT\\s+(COUNT|SUM|AVG|MIN|MAX|COUNT_DISTINCT)\\s*\\(",
     bol |-> TRUE, eol |-> FALSE,
     alts |-> {SelectLead \o Lit(a) \o <<WsStar>> \o Lit("(") : a \in Aggregates}],
    [source |-> "^\\s*SELECT\\s+(CURRENT_|SESSION_|SYSTEM\\$)",
     bol |-> TRUE, eol |-> FALSE,
     alts |-> {SelectLead \o Lit(p) : p \in ScalarPrefixes}] >>

METADATA_PATTERNS == <<
    [source |-> "^\\s*SELECT\\s+.*\\s+FROM\\s+INFORMATION_SCHEMA",
     bol |-> TRUE, eol |-> FALSE,
     alts |-> {SelectLead \o <<AnyStar, WsPlus>> \o Lit("FROM") \o <<WsPlus>>
                 \o Lit("INFORMATION_SCHEMA")}],
    [source |-> "^\\s*SELECT\\s+.*\\s+FROM\\s+DATA_",
     bol |-> TRUE, eol |-> FALSE,
     alts |-> {SelectLead \o <<AnyStar, WsPlus>> \o Lit("FROM") \o <<WsPlus>>
                 \o Lit("DATA_")}],
    [source |-> "DESCRIBE\\s+", bol |-> FALSE, eol |-> FALSE,
     alts |-> {Lit("DESCRIBE") \o <<WsPlus>>}],
    [source |-> "SHOW\\s+", bol |-> FALSE, eol |-> FALSE,
     alts |-> {Lit("SHOW") \o <<WsPlus>>}],
    [source |-> "LIST\\s+", bol |-> FALSE, eol |-> FALSE,
     alts |-> {Lit("LIST") \o <<WsPlus>>}],
    [source |-> "^DESC(RIPE)?\\s+", bol |-> TRUE, eol |-> FALSE,
     alts |-> {Lit("DESC") \o <<WsPlus>>, Lit("DESCRIPE") \o <<WsPlus>>}],
    [source |-> "GET_DDL\\s*\\(", bol |-> FALSE, eol |-> FALSE,
     alts |-> {Lit("GET_DDL") \o <<WsStar>> \o Lit("(")}],
    [source |-> "GET\\s+DDL", bol |-> FALSE, eol |-> FALSE,
     alts |-> {Lit("GET") \o <<WsPlus>> \o Lit("DDL")}] >>

\* indexes of the patterns of a list that match the text
Matching(patterns, text) ==
    {i \in 1..Len(patterns) : RegExpTest(patterns[i], text)}

Min(S) == CHOOSE x \in S : \A y \in S : x <= y
Max(S) == CHOOSE x \in S : \A y \in S : x >= y

classifyQuery_scalarFirst(query) ==
    LET trimmedQuery == trim(query)
        meta == Matching(METADATA_PATTERNS, trimmedQuery)
        scal == Matching(SCALAR_PATTERNS, trimmedQuery)
    IN  IF scal # {}
        THEN [type |-> "scalar",
              reason |-> "Query matches scalar pattern: "
                           \o SCALAR_PATTERNS[Min(scal)].source]
        ELSE IF meta # {}
        THEN [type |-> "metadata",
              reason |-> "Query matches metadata pattern: "
                           \o METADATA_PATTERNS[Min(meta)].source]
        ELSE [type |-> "data",
              reason |-> "Query does not match any known patterns, treating as data query"]

classifyQuery(query) ==
    LET trimmedQuery == trim(query)
        meta == Matching(METADATA_PATTERNS, trimmedQuery)
        scal == Matching(SCALAR_PATTERNS, trimmedQuery)
    IN  IF meta # {}
        THEN [type |-> "metadata",
              reason |-> "Query matches metadata pattern: "
                           \o METADATA_PATTERNS[Min(meta)].source]
        ELSE IF scal # {}
        THEN [type |-> "scalar",
              reason |-> "Query matches scalar pattern: "
                           \o SCALAR_PATTERNS[Min(scal)].source]
        ELSE [type |-> "data",
              reason |-> "Query does not match any known patterns, treating as data query"]

(***************************************************************************)
(* Inputs of the classifier run                                            *)
(***************************************************************************)
MaxLead == 1    \* most whitespace characters in front of (and behind) a query

RECURSIVE Spaces(_)
Spaces(n) == IF n = 0 THEN "" ELSE " " \o Spaces(n - 1)

Leads == {Spaces(n) : n \in 0..MaxLead}

QueryHeads == {
    "SELECT * FROM ", "SELECT name, email FROM ", "SELECT COUNT(*) FROM ",
    "select sum(amount) from ", "SELECT   MAX (score)   FROM   ",
    "SELECT CURRENT_DATE, id FROM ", "SELECT GET_DDL('TABLE', 'users') FROM ",
    "DESCRIBE TABLE ", "DESC ", "show columns in ", "LIST @",
    "INSERT INTO ", "UPDATE ", "DELETE FROM "}

QueryObjects == {
    "users", "INFORMATION_SCHEMA.TABLES", "information_schema.columns",
    "DATA_MART.sales", "wishlist", "PROD_orders"}

QueryTails == {
    "", " WHERE note = 'SHOW me'", " SET note = 'describe it'", " VALUES (1)",
    " WHERE id IN (SELECT id FROM INFORMATION_SCHEMA.TABLES)"}

ClassifierQueries ==
    {l \o h \o o \o t \o l : l \in Leads, h \in QueryHeads, o \in QueryObjects, t \in QueryTails}

NoRet == [kind |-> "none"]
NoCall == [fn |-> "none"]

NoFiles == [path \in {} |-> ""]

NoEnv == [SDAIDF_CONFIG_PATH |-> "", SNOWFLAKE_CONNECTION |-> ""]

IdleSync ==
    /\ remote = [kind |-> "none"]
    /\ env = NoEnv
    /\ todo = <<>>
    /\ syncResults = <<>>
    /\ files = NoFiles
    /\ fsLog = <<>>
    /\ previous = [runs |-> 0, files |-> NoFiles]
    /\ procs = <<>>

IdleTool ==
    /\ IdleSync
    /\ pc = "idle"
    /\ request = [tool |-> "none"]
    /\ config = [kind |-> "none"]
    /\ executor = [kind |-> "none"]
    /\ execLog = <<>>
    /\ response = [kind |-> "none"]

InitClassify ==
    /\ call \in {[fn |-> "classifyQuery", query |-> q] : q \in ClassifierQueries}
    /\ ret = NoRet
    /\ IdleTool

ClassifyQuery ==
    /\ call.fn = "classifyQuery"
    /\ ret = NoRet
    /\ ret' = [kind |-> "classification"] @@ classifyQuery(call.query)
    /\ UNCHANGED <<call, toolVars>>

NextClassify == ClassifyQuery

SpecClassify == InitClassify /\ [][NextClassify]_vars

Classified == call.fn = "classifyQuery" /\ ret.kind = "classification"

\* C5: a query that matches a metadata pattern and a scalar pattern is
\* classified metadata, never scalar.
C5_MetadataPrecedence ==
    (/\ Classified
     /\ Matching(METADATA_PATTERNS, trim(call.query)) # {}
     /\ Matching(SCALAR_PATTERNS, trim(call.query)) # {})
    => ret.type = "metadata"

C5_Witness ==
    /\ Classified
    /\ trim(call.query) = "SELECT COUNT(*) FROM INFORMATION_SCHEMA.TABLES"
    /\ Matching(METADATA_PATTERNS, trim(call.query)) # {}
    /\ Matching(SCALAR_PATTERNS, trim(call.query)) # {}
    /\ ret.type = "metadata"

BeginsWithWord(text, words) ==
    RegExpTest([source |-> "", bol |-> TRUE, eol |-> FALSE,
                alts |-> {Lit(w) \o <<WsPlus>> : w \in words}], text)

\* the forms a metadata statement may begin with: each metadata pattern
\* anchored at the first character of the text
BeginsAsMetadata(text) ==
    \E i \in 1..Len(METADATA_PATTERNS) :
        \/ RegExpTest([METADATA_PATTERNS[i] EXCEPT !.bol = TRUE], text)
        \/ RegExpTest([METADATA_PATTERNS[i] EXCEPT !.bol = TRUE,
                         !.alts = {SelectLead \o a : a \in METADATA_PATTERNS[i].alts}], text)

\* C6: every classification pattern is anchored at the start of the trimmed
\* query: a query is classified metadata only when its trimmed text begins
\* as a metadata statement, never because SHOW, LIST or DESCRIBE followed by
\* whitespace occurs later in the text.
C6_AnchoredMetadata ==
    (Classified /\ ret.type = "metadata") => BeginsAsMetadata(trim(call.query))

\* C7: every statement whose trimmed text begins with INSERT, UPDATE or
\* DELETE is classified data.
C7_DmlIsData ==
    (Classified /\ BeginsWithWord(trim(call.query), {"INSERT", "UPDATE", "DELETE"}))
    => ret.type = "data"

(***************************************************************************)
(* ExclusionChecker                                                        *)
(***************************************************************************)
\* new RegExp(p, flags) for the pattern strings of the configuration: "^"
\* in front and "$" at the end are anchors, every other character of these
\* patterns is a literal
RegExpCompile_noFlag(p, flags) ==
    LET bol == Len(p) > 0 /\ Ch(p, 1) = "^"
        eol == Len(p) > 0 /\ Ch(p, Len(p)) = "$"
        body == SubSeq(p, IF bol THEN 2 ELSE 1, IF eol THEN Len(p) - 1 ELSE Len(p))
    IN  [source |-> p, bol |-> bol, eol |-> eol, alts |-> {LitExact(body)}]

RegExpCompile(p, flags) ==
    LET bol == Len(p) > 0 /\ Ch(p, 1) = "^"
        eol == Len(p) > 0 /\ Ch(p, Len(p)) = "$"
        body == SubSeq(p, IF bol THEN 2 ELSE 1, IF eol THEN Len(p) - 1 ELSE Len(p))
    IN  [source |-> p, bol |-> bol, eol |-> eol,
         alts |-> {IF flags = "i" THEN Lit(body) ELSE LitExact(body)}]

\* a configured pattern is a string or an already built RegExp
createExclusionChecker(patterns, objectTypes) ==
    [patterns |-> [i \in 1..Len(patterns) |->
                     IF patterns[i].kind = "RegExp"
                     THEN RegExpCompile(patterns[i].source, patterns[i].flags)
                     ELSE RegExpCompile(patterns[i].source, "i")],
     objectTypes |-> objectTypes]

SeqIncludes(seq, x) == \E i \in 1..Len(seq) : seq[i] = x

RECURSIVE checkFrom(_, _, _)
checkFrom(checker, objectName, i) ==
    IF i <= Len(checker.patterns)
    THEN IF RegExpTest(checker.patterns[i], objectName)
         THEN [isExcluded |-> TRUE, matchedPattern |-> checker.patterns[i].source]
         ELSE checkFrom(checker, objectName, i + 1)
    ELSE IF SeqIncludes(checker.objectTypes, toUpperCase(objectName))
         THEN [isExcluded |-> TRUE, matchedPattern |-> "objectType:" \o objectName]
         ELSE [isExcluded |-> FALSE]

RECURSIVE checkDownFrom(_, _, _)
checkDownFrom(checker, objectName, i) ==
    IF i >= 1
    THEN IF RegExpTest(checker.patterns[i], objectName)
         THEN [isExcluded |-> TRUE, matchedPattern |-> checker.patterns[i].source]
         ELSE checkDownFrom(checker, objectName, i - 1)
    ELSE IF SeqIncludes(checker.objectTypes, toUpperCase(objectName))
         THEN [isExcluded |-> TRUE, matchedPattern |-> "objectType:" \o objectName]
         ELSE [isExcluded |-> FALSE]

check_lastMatch(checker, objectName) ==
    checkDownFrom(checker, objectName, Len(checker.patterns))

check(checker, objectName) == checkFrom(checker, objectName, 1)

isExcluded(checker, objectName) == check(checker, objectName).isExcluded

(***************************************************************************)
(* Inputs of the exclusion checker run                                     *)
(***************************************************************************)
MaxPatterns == 2    \* most patterns in a configured list

Str(p) == [kind |-> "string", source |-> p]

PatternPool == {
    Str("^PROD_"), Str("_BACKUP$"), Str("^prod_"), Str("orders"),
    [kind |-> "RegExp", source |-> "^SYSTEM_", flags |-> "i"],
    [kind |-> "RegExp", source |-> "_tmp$", flags |-> ""]}

PatternLists == UNION {[1..n -> PatternPool] : n \in 0..MaxPatterns}

ObjectTypeLists == {<<>>, <<"SNAPSHOT">>, <<"snapshot", "STREAM">>}

CheckedNames == {
    "PROD_X", "prod_x", "Prod_users", "orders_BACKUP", "ORDERS_backup",
    "PROD_orders_BACKUP", "dev_users", "SNAPSHOT", "snapshot", "Snapshot",
    "system_settings", "load_tmp", "LOAD_TMP", "stream"}

InitCheck ==
    /\ call \in {[fn |-> f, checker |-> createExclusionChecker(ps, ts),
                  strings |-> \A i \in 1..Len(ps) : ps[i].kind = "string",
                  objectName |-> n] :
                   f \in {"check", "isExcluded"}, ps \in PatternLists,
                   ts \in ObjectTypeLists, n \in CheckedNames}
    /\ ret = NoRet
    /\ IdleTool

Check ==
    /\ call.fn = "check"
    /\ ret = NoRet
    /\ ret' = [kind |-> "exclusion"] @@ check(call.checker, call.objectName)
    /\ UNCHANGED <<call, toolVars>>

IsExcluded ==
    /\ call.fn = "isExcluded"
    /\ ret = NoRet
    /\ ret' = [kind |-> "boolean", value |-> isExcluded(call.checker, call.objectName)]
    /\ UNCHANGED <<call, toolVars>>

NextCheck == Check \/ IsExcluded

SpecCheck == InitCheck /\ [][NextCheck]_vars

MatchingPatterns(checker, objectName) ==
    {i \in 1..Len(checker.patterns) : RegExpTest(checker.patterns[i], objectName)}

TypeTokenMatches(checker, objectName) ==
    \E i \in 1..Len(checker.objectTypes) :
        checker.objectTypes[i] = toUpperCase(objectName)

\* C8: check reports the source of the first configured pattern that
\* matches; with no matching pattern and no matching type token it reports
\* not excluded and carries no matchedPattern; isExcluded is the boolean
\* projection of check.
C8_FirstMatchWins ==
    LET m == MatchingPatterns(call.checker, call.objectName)
    IN  /\ (call.fn = "check" /\ ret.kind = "exclusion" /\ m # {})
              => /\ ret.isExcluded
                 /\ ret.matchedPattern = call.checker.patterns[Min(m)].source
        /\ (call.fn = "check" /\ ret.kind = "exclusion" /\ m = {}
              /\ ~TypeTokenMatches(call.checker, call.objectName))
              => /\ ~ret.isExcluded
                 /\ "matchedPattern" \notin DOMAIN ret
        /\ (call.fn = "isExcluded" /\ ret.kind = "boolean")
              => ret.value = check(call.checker, call.objectName).isExcluded

C8_Witness ==
    /\ call.fn = "check"
    /\ ret.kind = "exclusion"
    /\ call.objectName = "PROD_orders_BACKUP"
    /\ Len(call.checker.patterns) = 2
    /\ call.checker.patterns[1].source = "_BACKUP$"
    /\ call.checker.patterns[2].source = "^PROD_"
    /\ MatchingPatterns(call.checker, call.objectName) = {1, 2}
    /\ ret.matchedPattern = "_BACKUP$"

\* C9: with rules configured as pattern strings and type tokens, the
\* verdict of check is the same for every upper/lower-case variant of a name.
C9_CaseInsensitive ==
    (call.fn = "check" /\ ret.kind = "exclusion" /\ call.strings)
    => \A n \in CheckedNames :
           toUpperCase(n) = toUpperCase(call.objectName)
           => check(call.checker, n).isExcluded = ret.isExcluded

C9_Witness ==
    /\ call.fn = "check"
    /\ ret.kind = "exclusion"
    /\ call.strings
    /\ call.objectName = "prod_x"
    /\ Len(call.checker.patterns) = 1
    /\ call.checker.patterns[1].source = "^PROD_"
    /\ ret.isExcluded
    /\ check(call.checker, "PROD_X").isExcluded

(***************************************************************************)
(* ObjectNameExtractor                                                     *)
(***************************************************************************)
WordChars == CharsOf(LowerLetters) \cup CharsOf(UpperLetters) \cup CharsOf(DigitChars)

\* the backquote character: a TLA+ string cannot hold it, so the character
\* "~", which has no other role in the texts of this model, stands for it
Backtick == "~"

QuoteChars == {Backtick, "\""}

\* the class of a name with the backquote, and the class without it
NameClassTick == Class(WordChars \cup {"_", ".", "\"", Backtick})
NameClass == Class(WordChars \cup {"_", ".", "\""})

\* a clause extractor: keyword alternatives, then \s+, then the captured
\* run of name characters
Clause(keywords, cls) == [pre |-> {k \o <<WsPlus>> : k \in keywords}, cls |-> cls]

Words(ws) == Lit(ws[1]) \o
    (IF Len(ws) > 1 THEN <<WsPlus>> \o Lit(ws[2]) ELSE <<>>) \o
    (IF Len(ws) > 2 THEN <<WsPlus>> \o Lit(ws[3]) ELSE <<>>)

fromPattern == Clause({Words(<<"FROM">>)}, NameClassTick)

joinPatterns == <<
    Clause({Words(<<"JOIN">>)}, NameClassTick),
    Clause({Words(<<"INNER", "JOIN">>)}, NameClassTick),
    Clause({Words(<<"LEFT", "JOIN">>)}, NameClassTick),
    Clause({Words(<<"RIGHT", "JOIN">>)}, NameClassTick),
    Clause({Words(<<"OUTER", "JOIN">>)}, NameClassTick),
    Clause({Words(<<"FULL", "OUTER", "JOIN">>)}, NameClassTick) >>

intoPattern == Clause({Words(<<"INTO">>)}, NameClass)

tablePattern ==
    Clause({Words(<<k, "TABLE">>) : k \in {"CREATE", "ALTER", "DROP"}}, NameClass)

updatePattern == Clause({Words(<<"UPDATE">>)}, NameClass)

\* positions where the captured group can begin when the clause is matched
\* with its first character at position start
CaptureStarts(clause, s, start) ==
    {p \in UNION {MatchEnds(alt, 1, s, {start}) : alt \in clause.pre} :
        p <= Len(s) /\ InClass(Ch(s, p), clause.cls)}

\* String.prototype.matchAll with a g pattern: the captured groups of the
\* successive leftmost matches, each search resuming where the last match ended
RECURSIVE matchAll(_, _, _)
matchAll(clause, s, from) ==
    LET starts == {i \in from..Len(s) : CaptureStarts(clause, s, i) # {}}
    IN  IF starts = {} THEN <<>>
        ELSE LET p == Max(CaptureStarts(clause, s, Min(starts)))
                 e == RunEnd(clause.cls, s, p)
             IN  <<SubSeq(s, p, e - 1)>> \o matchAll(clause, s, e)

\* match[1] with the quote characters removed and trimmed, kept when not empty
RECURSIVE CleanNames(_, _)
CleanNames(captures, dropParen) ==
    IF captures = <<>> THEN <<>>
    ELSE LET name == trim(RemoveChars(Head(captures), QuoteChars))
         IN  (IF name # "" /\ ~(dropParen /\ StartsWith(name, "("))
              THEN <<name>> ELSE <<>>)
             \o CleanNames(Tail(captures), dropParen)

RECURSIVE JoinNames(_, _)
JoinNames(query, k) ==
    IF k > Len(joinPatterns) THEN <<>>
    ELSE CleanNames(matchAll(joinPatterns[k], query, 1), FALSE) \o JoinNames(query, k + 1)

\* [...new Set(names)]: first occurrences, in order
RECURSIVE Dedupe(_, _)
Dedupe(names, seen) ==
    IF names = <<>> THEN <<>>
    ELSE IF Head(names) \in seen THEN Dedupe(Tail(names), seen)
    ELSE <<Head(names)>> \o Dedupe(Tail(names), seen \cup {Head(names)})

extractObjectNames_intoFirst(query) ==
    Dedupe(CleanNames(matchAll(intoPattern, query, 1), FALSE)
             \o CleanNames(matchAll(fromPattern, query, 1), TRUE)
             \o JoinNames(query, 1)
             \o CleanNames(matchAll(tablePattern, query, 1), FALSE)
             \o CleanNames(matchAll(updatePattern, query, 1), FALSE),
           {})

extractObjectNames(query) ==
    Dedupe(CleanNames(matchAll(fromPattern, query, 1), TRUE)
             \o JoinNames(query, 1)
             \o CleanNames(matchAll(intoPattern, query, 1), FALSE)
             \o CleanNames(matchAll(tablePattern, query, 1), FALSE)
             \o CleanNames(matchAll(updatePattern, query, 1), FALSE),
           {})

Range(seq) == {seq[i] : i \in 1..Len(seq)}

(***************************************************************************)
(* Inputs of the extractor run: statements built from their parts, each    *)
(* with the set of tables it references                                    *)
(***************************************************************************)
MaxJoins == 2    \* most joins in one statement

FromTables == {"users", "db.sch.PROD_orders"}

JoinTables == {"orders", "PROD_audit"}

JoinKinds == {"JOIN", "INNER JOIN", "LEFT JOIN", "RIGHT JOIN",
              "LEFT OUTER JOIN", "FULL  OUTER  JOIN"}

Part(text, tables) == [text |-> text, tables |-> tables]

RECURSIVE JoinChains(_)
JoinChains(n) ==
    IF n = 0 THEN {Part("", {})}
    ELSE {Part(c.text \o " " \o k \o " " \o t \o " ON 1 = 1", c.tables \cup {t}) :
            c \in JoinChains(n - 1), k \in JoinKinds, t \in JoinTables}

FromLists ==
    {Part(t, {t}) : t \in FromTables}
    \cup {Part(t \o ", " \o u, {t, u}) : t \in FromTables, u \in JoinTables}

Selects(maxJoins) ==
    {Part("SELECT * FROM " \o f.text \o j.text, f.tables \cup j.tables) :
        f \in FromLists, j \in UNION {JoinChains(n) : n \in 0..maxJoins}}

SimpleStatements ==
    UNION {{Part("INSERT INTO " \o t \o " SELECT * FROM " \o u, {t, u}),
            Part("CREATE TABLE " \o t \o " (id INT)", {t}),
            Part("alter table " \o t \o " ADD COLUMN age INT", {t}),
            Part("DROP TABLE " \o t, {t}),
            Part("UPDATE " \o t \o " SET a = 1", {t}),
            Part("DELETE FROM " \o t \o " WHERE a = 1", {t})} :
           t \in FromTables, u \in JoinTables}

ExtractorInputs ==
    Selects(MaxJoins) \cup SimpleStatements
    \cup {Part(a.text \o "; " \o b.text, a.tables \cup b.tables) :
            a \in Selects(0) \cup SimpleStatements, b \in SimpleStatements}

\* a name written inside double quotes or backticks
Quoted(name, q) == q \o name \o q

\* one statement for each clause kind, as the text before and after its table
ClauseStatements == {
    [kind |-> "FROM", pre |-> "SELECT * FROM ", post |-> " WHERE a = 1"],
    [kind |-> "JOIN", pre |-> "SELECT 1 FROM dual LEFT JOIN ", post |-> " ON 1 = 1"],
    [kind |-> "INTO", pre |-> "INSERT INTO ", post |-> " VALUES (1)"],
    [kind |-> "CREATE TABLE", pre |-> "CREATE TABLE ", post |-> " (id INT)"],
    [kind |-> "ALTER TABLE", pre |-> "ALTER TABLE ", post |-> " ADD COLUMN age INT"],
    [kind |-> "DROP TABLE", pre |-> "DROP TABLE ", post |-> ""],
    [kind |-> "UPDATE", pre |-> "UPDATE ", post |-> " SET a = 1"]}

\* the statements with a quoted table, each beside its unquoted writing
QuotedStatements ==
    {[text |-> c.pre \o Quoted(t, q) \o c.post, tables |-> {t},
      bare |-> c.pre \o t \o c.post] :
        c \in ClauseStatements, t \in FromTables, q \in QuoteChars}

InitExtract ==
    /\ call \in {[fn |-> "extractObjectNames", query |-> x.text, tables |-> x.tables,
                   bare |-> x.text] : x \in ExtractorInputs}
               \cup {[fn |-> "extractObjectNames", query |-> x.text, tables |-> x.tables,
                       bare |-> x.bare] : x \in QuotedStatements}
    /\ ret = NoRet
    /\ IdleTool

ExtractObjectNames ==
    /\ call.fn = "extractObjectNames"
    /\ ret = NoRet
    /\ ret' = [kind |-> "names", names |-> extractObjectNames(call.query)]
    /\ UNCHANGED <<call, toolVars>>

NextExtract == ExtractObjectNames

SpecExtract == InitExtract /\ [][NextExtract]_vars

\* C10: every table a statement references through FROM (each table of a
\* comma-separated list included), a JOIN variant, INTO, CREATE/ALTER/DROP
\* TABLE or UPDATE is among the extracted names.
C10_AllTablesExtracted ==
    (call.fn = "extractObjectNames" /\ ret.kind = "names")
    => call.tables \subseteq Range(ret.names)

\* C12: quoting does not change an extracted name: for every clause kind
\* (FROM, JOIN, INTO, CREATE/ALTER/DROP TABLE, UPDATE) a statement whose
\* table is written in double quotes or in backticks yields the same names
\* as the statement with the table unquoted.
C12_QuotingIgnored ==
    (call.fn = "extractObjectNames" /\ ret.kind = "names")
    => ret.names = extractObjectNames(call.bare)

\* the clause patterns in the order extractObjectNames runs them, and the
\* names each of them captures
ClausePatterns == <<fromPattern>> \o joinPatterns \o <<intoPattern, tablePattern, updatePattern>>

CapturedNames(query) ==
    [k \in 1..Len(ClausePatterns) |->
        CleanNames(matchAll(ClausePatterns[k], query, 1), k = 1)]

NoDuplicates(seq) == \A i, j \in 1..Len(seq) : seq[i] = seq[j] => i = j

\* where a name is first captured: the pattern, then the place among that
\* pattern's captures
FirstCapture(caps, name) ==
    LET k == Min({n \in DOMAIN caps : name \in Range(caps[n])})
    IN  <<k, Min({i \in 1..Len(caps[k]) : caps[k][i] = name})>>

LexLess(a, b) == a[1] < b[1] \/ (a[1] = b[1] /\ a[2] < b[2])

\* where a name first stands in the statement text as a whole name
NameChars == WordChars \cup {"_", "."}

FirstOccurrence(name, text) ==
    LET n == Len(name)
        at == {i \in 1..(Len(text) - n + 1) :
                 /\ SubSeq(text, i, i + n - 1) = name
                 /\ (i = 1 \/ Ch(text, i - 1) \notin NameChars)
                 /\ (i + n > Len(text) \/ Ch(text, i + n) \notin NameChars)}
    IN  IF at = {} THEN 0 ELSE Min(at)

\* C13 as stated: extractObjectNames never returns the same name twice, and
\* the names are in the order of their first occurrence in the statement
\* text.
C13_TextOrder ==
    (call.fn = "extractObjectNames" /\ ret.kind = "names")
    => /\ NoDuplicates(ret.names)
       /\ \A i, j \in 1..Len(ret.names) :
              i < j => FirstOccurrence(ret.names[i], call.query)
                         < FirstOccurrence(ret.names[j], call.query)

\* C13 amended: extractObjectNames returns every captured name once, in the
\* order of first capture, the captures being gathered pattern by pattern
\* (FROM, the JOIN variants, INTO, CREATE/ALTER/DROP TABLE, UPDATE) and in
\* text order within one pattern.
C13_FirstCaptureOrder ==
    (call.fn = "extractObjectNames" /\ ret.kind = "names")
    => LET caps == CapturedNames(call.query)
           names == ret.names
       IN  /\ NoDuplicates(names)
           /\ Range(names) = UNION {Range(caps[k]) : k \in DOMAIN caps}
           /\ \A i, j \in 1..Len(names) :
                  i < j => LexLess(FirstCapture(caps, names[i]),
                                   FirstCapture(caps, names[j]))

\* an INTO table that stands first in the text is listed after the FROM
\* table, and a table joined twice is listed once
C13_Witness ==
    /\ call.fn = "extractObjectNames"
    /\ call.query = "INSERT INTO users SELECT * FROM orders; DELETE FROM users WHERE a = 1"
    /\ ret.kind = "names"
    /\ ret.names = <<"orders", "users">>

(***************************************************************************)
(* JavaScript values                                                       *)
(*                                                                         *)
(* A value is a record tagged with its kind; numbers and booleans carry    *)
(* their literal as a string, an object its keys in insertion order.       *)
(***************************************************************************)
Undefined == [t |-> "undefined"]
Null == [t |-> "null"]
Bool(b) == [t |-> "boolean", v |-> b]
Num(n) == [t |-> "number", v |-> n]
StrV(s) == [t |-> "string", v |-> s]
Arr(items) == [t |-> "array", items |-> items]
Obj(keys, vals) == [t |-> "object", keys |-> keys, vals |-> vals]

typeof(v) ==
    CASE v.t = "null" -> "object"
      [] v.t = "array" -> "object"
      [] OTHER -> v.t

Truthy(v) ==
    CASE v.t \in {"undefined", "null"} -> FALSE
      [] v.t = "boolean" -> v.v = "true"
      [] v.t = "number" -> v.v \notin {"0", "NaN"}
      [] v.t = "string" -> v.v # ""
      [] OTHER -> TRUE

Nullish(v) == v.t \in {"undefined", "null"}

IndexKeys(n) == [i \in 1..n |-> ToString(i - 1)]

\* v[k] for a value that is not null or undefined
GetProp(v, k) ==
    CASE v.t = "object" ->
           IF \E i \in 1..Len(v.keys) : v.keys[i] = k
           THEN v.vals[CHOOSE i \in 1..Len(v.keys) : v.keys[i] = k]
           ELSE Undefined
      [] v.t = "array" ->
           IF \E i \in 1..Len(v.items) : ToString(i - 1) = k
           THEN v.items[CHOOSE i \in 1..Len(v.items) : ToString(i - 1) = k]
           ELSE Undefined
      [] v.t = "string" ->
           IF \E i \in 1..Len(v.v) : ToString(i - 1) = k
           THEN StrV(Ch(v.v, CHOOSE i \in 1..Len(v.v) : ToString(i - 1) = k))
           ELSE Undefined
      [] OTHER -> Undefined

HasKey(v, k) == v.t = "object" /\ \E i \in 1..Len(v.keys) : v.keys[i] = k

\* Object.keys(v) for a value that is not null or undefined
ObjectKeys(v) ==
    CASE v.t = "object" -> v.keys
      [] v.t = "array" -> IndexKeys(Len(v.items))
      [] v.t = "string" -> IndexKeys(Len(v.v))
      [] OTHER -> <<>>

Ok(v) == [ok |-> TRUE, value |-> v]
Throws == [ok |-> FALSE]

(***************************************************************************)
(* JSON texts.  A text that is valid JSON is kept as the value it denotes, *)
(* any other text as its characters.                                       *)
(***************************************************************************)
JsonText(v) == [json |-> TRUE, value |-> v]
PlainText(s) == [json |-> FALSE, raw |-> s]

JSONparse(text) == IF text.json THEN Ok(text.value) ELSE Throws

\* JSON.stringify: a property whose value is undefined is left out, an
\* undefined array element is written as null
RECURSIVE Serializable(_)
Serializable(v) ==
    CASE v.t = "object" ->
           LET kept == SelectSeq([i \in 1..Len(v.keys) |-> i],
                                 LAMBDA i : v.vals[i].t # "undefined")
           IN  Obj([j \in 1..Len(kept) |-> v.keys[kept[j]]],
                   [j \in 1..Len(kept) |-> Serializable(v.vals[kept[j]])])
      [] v.t = "array" ->
           Arr([i \in 1..Len(v.items) |->
                  IF v.items[i].t = "undefined" THEN Null
                  ELSE Serializable(v.items[i])])
      [] OTHER -> v

JSONstringify(v) == JsonText(Serializable(v))

(***************************************************************************)
(* ResultRedactor                                                          *)
(***************************************************************************)
ColumnInfo(name, type) ==
    Obj(<<"name", "type", "nullable">>, <<name, type, Bool("true")>>)

RedactedResult(columns, rowCount, data) ==
    Obj(<<"metadata", "data">>,
        <<Obj(<<"columns", "rowCount">>, <<columns, rowCount>>), data>>)

\* raw?.field
OptProp(raw, k) == IF Nullish(raw) THEN Undefined ELSE GetProp(raw, k)

redactResult_keepRows(result) ==
    LET raw == result
        cols == OptProp(raw, "columns")
        rowCount == IF Nullish(OptProp(raw, "rowCount"))
                    THEN Num("0") ELSE OptProp(raw, "rowCount")
        rows == IF OptProp(raw, "rows").t = "array" THEN OptProp(raw, "rows") ELSE Arr(<<>>)
    IN  IF ~Truthy(cols) THEN Ok(RedactedResult(Arr(<<>>), rowCount, rows))
        ELSE IF cols.t # "array" THEN Throws
        ELSE IF \E i \in 1..Len(cols.items) : Nullish(cols.items[i]) THEN Throws
        ELSE Ok(RedactedResult(
                  Arr([i \in 1..Len(cols.items) |->
                         ColumnInfo(GetProp(cols.items[i], "name"),
                                    GetProp(cols.items[i], "type"))]),
                  rowCount, rows))

\* (raw?.columns || []).map(...) throws a TypeError when columns is a
\* truthy value without map, or holds a null or undefined entry
redactResult(result) ==
    LET raw == result
        cols == OptProp(raw, "columns")
        rowCount == IF Nullish(OptProp(raw, "rowCount"))
                    THEN Num("0") ELSE OptProp(raw, "rowCount")
    IN  IF ~Truthy(cols) THEN Ok(RedactedResult(Arr(<<>>), rowCount, Arr(<<>>)))
        ELSE IF cols.t # "array" THEN Throws
        ELSE IF \E i \in 1..Len(cols.items) : Nullish(cols.items[i]) THEN Throws
        ELSE Ok(RedactedResult(
                  Arr([i \in 1..Len(cols.items) |->
                         ColumnInfo(GetProp(cols.items[i], "name"),
                                    GetProp(cols.items[i], "type"))]),
                  rowCount, Arr(<<>>)))

\* Object.keys(obj).map(...): throws a TypeError for null and undefined
extractColumns(obj) ==
    IF Nullish(obj) THEN Throws
    ELSE LET keys == ObjectKeys(obj)
         IN  Ok(Arr([i \in 1..Len(keys) |->
                       ColumnInfo(StrV(keys[i]), StrV(typeof(GetProp(obj, keys[i]))))]))

ValueEnvelope == Obj(<<"value">>, <<StrV("[REDACTED]")>>)

ErrorEnvelope ==
    Obj(<<"error", "raw">>, <<StrV("Failed to parse result"), StrV("[REDACTED]")>>)

redactJsonResult(jsonString) ==
    LET p == JSONparse(jsonString)
        parsed == p.value
        failed == JSONstringify(ErrorEnvelope)
    IN  IF ~p.ok THEN failed
        ELSE IF parsed.t = "array" THEN
            LET cols == IF Len(parsed.items) > 0
                        THEN extractColumns(parsed.items[1]) ELSE Ok(Arr(<<>>))
            IN  IF ~cols.ok THEN failed
                ELSE JSONstringify(RedactedResult(cols.value,
                         Num(ToString(Len(parsed.items))), Arr(<<>>)))
        ELSE IF Truthy(parsed) /\ typeof(parsed) = "object" THEN
            IF \/ Truthy(GetProp(parsed, "columns"))
               \/ Truthy(GetProp(parsed, "rows"))
               \/ Truthy(GetProp(parsed, "data"))
            THEN LET r == redactResult(parsed)
                 IN  IF r.ok THEN JSONstringify(r.value) ELSE failed
            ELSE JSONstringify(RedactedResult(extractColumns(parsed).value,
                                              Num("1"), Arr(<<>>)))
        ELSE JSONstringify(ValueEnvelope)

(***************************************************************************)
(* Inputs of the redactor run                                              *)
(***************************************************************************)
MaxRows == 2    \* most rows in a result

IdValues == {Num("1"), Num("2")}
NameValues == {StrV("Alice"), StrV("Bob"), Null}

ResultRows == {Obj(<<"id", "name">>, <<i, n>>) : i \in IdValues, n \in NameValues}

RowLists == UNION {[1..k -> ResultRows] : k \in 0..MaxRows}

ColumnDefs ==
    Arr(<<Obj(<<"name", "type">>, <<StrV("id"), StrV("NUMBER")>>),
          Obj(<<"name", "type">>, <<StrV("name"), StrV("VARCHAR")>>)>>)

RowCountOf(rs) == Num(ToString(Len(rs)))

JsonValues ==
    {Arr(rs) : rs \in RowLists}
    \cup ResultRows
    \cup {Obj(<<"columns", "rows", "rowCount">>, <<ColumnDefs, Arr(rs), RowCountOf(rs)>>) :
            rs \in RowLists}
    \cup {Obj(<<"rows", "rowCount">>, <<Arr(rs), RowCountOf(rs)>>) : rs \in RowLists}
    \cup {Obj(<<"columns", "rows">>, <<ColumnDefs, Arr(rs)>>) : rs \in RowLists}
    \cup {Obj(<<"columns", "rows", "rowCount">>, <<ColumnDefs, Arr(rs), Num("5")>>) :
            rs \in RowLists}
    \cup {Obj(<<"data">>, <<Arr(rs)>>) : rs \in RowLists}
    \cup {Obj(<<>>, <<>>), Null, Num("5"), Num("0"), StrV("Alice"), Bool("true"),
          Arr(<<Null>>), Arr(<<Num("1"), Num("2")>>),
          Obj(<<"columns">>, <<StrV("id")>>),
          Obj(<<"columns", "rows">>, <<Arr(<<Null>>), Arr(<<>>)>>),
          Obj(<<"columns">>, <<Arr(<<StrV("id")>>)>>)}

TypedInputs == JsonValues \cup {Undefined}

PlainTexts == {PlainText(""), PlainText("id\tname\n1\tAlice\n2\tBob\n"),
               PlainText("[{\"id\": 1,")}

ResultTexts == {JsonText(v) : v \in JsonValues} \cup PlainTexts

InitRedact ==
    /\ call \in {[fn |-> "redactResult", result |-> v] : v \in TypedInputs}
               \cup {[fn |-> "redactJsonResult", jsonString |-> x] : x \in ResultTexts}
    /\ ret = NoRet
    /\ IdleTool

RedactResult ==
    /\ call.fn = "redactResult"
    /\ ret = NoRet
    /\ ret' = [kind |-> "redacted"] @@ redactResult(call.result)
    /\ UNCHANGED <<call, toolVars>>

RedactJsonResult ==
    /\ call.fn = "redactJsonResult"
    /\ ret = NoRet
    /\ ret' = [kind |-> "text", text |-> redactJsonResult(call.jsonString)]
    /\ UNCHANGED <<call, toolVars>>

NextRedact == RedactResult \/ RedactJsonResult

SpecRedact == InitRedact /\ [][NextRedact]_vars

EmptyData(envelope) ==
    HasKey(envelope, "data") /\ GetProp(envelope, "data") = Arr(<<>>)

InputValue == IF call.fn = "redactResult" THEN call.result ELSE call.jsonString.value

Envelope == IF call.fn = "redactResult" THEN ret.value ELSE ret.text.value

ReturnedMetadata ==
    \/ call.fn = "redactResult" /\ ret.kind = "redacted" /\ ret.ok
    \/ /\ call.fn = "redactJsonResult" /\ ret.kind = "text"
       /\ call.jsonString.json
       /\ HasKey(ret.text.value, "metadata")

HasRows(v, k) == HasKey(v, k) /\ GetProp(v, k).t = "array"

\* an object in the columns/rows form, and a single plain object
ResultForm(v) == HasKey(v, "columns") \/ HasKey(v, "rows") \/ HasKey(v, "data")

PlainObject(v) == v.t = "object" /\ ~ResultForm(v)

\* the rows of an input: the array itself, the rows (or data) of the
\* columns/rows form, the object itself when it is a single plain object
RowSource(v) ==
    IF v.t = "array" THEN v.items
    ELSE IF HasRows(v, "rows") THEN GetProp(v, "rows").items
    ELSE IF HasRows(v, "data") THEN GetProp(v, "data").items
    ELSE <<v>>

\* C14: metadata.rowCount of the redacted result equals the number of
\* elements of the input's row source: the array length for an array, 1 for
\* a single plain object, the number of entries of rows for an object in
\* columns/rows form, whatever its rowCount field says.
C14_RowCountIsElementCount ==
    (/\ ReturnedMetadata
     /\ \/ call.fn = "redactJsonResult" /\ InputValue.t = "array"
        \/ call.fn = "redactJsonResult" /\ PlainObject(InputValue)
        \/ HasRows(InputValue, "rows"))
    => GetProp(GetProp(Envelope, "metadata"), "rowCount")
         = RowCountOf(RowSource(InputValue))

\* C15: redaction degrades to a safe envelope and never throws:
\* redactResult returns a RedactedResult for every typed input, and
\* redactJsonResult returns the parse-failure envelope for a text that is
\* not JSON and {value: "[REDACTED]"} for a JSON primitive.
C15_NeverThrows ==
    /\ (call.fn = "redactResult" /\ ret.kind = "redacted")
          => (ret.ok /\ HasKey(ret.value, "metadata") /\ HasKey(ret.value, "data"))
    /\ (call.fn = "redactJsonResult" /\ ret.kind = "text")
          => /\ ~call.jsonString.json => ret.text = JSONstringify(ErrorEnvelope)
             /\ (call.jsonString.json
                 /\ call.jsonString.value.t \in {"string", "number", "boolean", "null"})
                => ret.text = JSONstringify(ValueEnvelope)

\* C16: for the JSON text null, redactJsonResult returns an envelope that
\* has a metadata field.
C16_NullHasMetadata ==
    (call.fn = "redactJsonResult" /\ ret.kind = "text" /\ call.jsonString = JsonText(Null))
    => HasKey(ret.text.value, "metadata")

\* the columns an explicit columns array states, and those the keys and
\* value types of a row give
ExplicitColumns(columns) ==
    Arr([i \in 1..Len(columns.items) |->
           ColumnInfo(GetProp(columns.items[i], "name"),
                      GetProp(columns.items[i], "type"))])

InferredColumns(row) ==
    LET keys == ObjectKeys(row)
    IN  Arr([i \in 1..Len(keys) |->
               ColumnInfo(StrV(keys[i]), StrV(typeof(GetProp(row, keys[i]))))])

\* C17: the column metadata of the redacted result is the explicit columns
\* array when the input has one, and is otherwise inferred from the keys
\* and value types of the first element of the row source, also for an
\* object that has rows (or data) but no columns.
C17_ColumnsExplicitOrInferred ==
    (/\ ReturnedMetadata
     /\ \/ call.fn = "redactJsonResult" /\ InputValue.t \in {"array", "object"}
        \/ InputValue.t = "object" /\ ResultForm(InputValue))
    => LET v == InputValue
           rows == RowSource(v)
           expected == IF HasRows(v, "columns") THEN ExplicitColumns(GetProp(v, "columns"))
                       ELSE IF rows = <<>> THEN Arr(<<>>)
                       ELSE InferredColumns(rows[1])
       IN  Serializable(GetProp(GetProp(Envelope, "metadata"), "columns"))
             = Serializable(expected)

(***************************************************************************)
(* Configuration                                                           *)
(***************************************************************************)
MaxScalarRows == 1000

\* a configured pattern as loadConfig hands it on: built with the i flag
Re(p) == [kind |-> "RegExp", source |-> p, flags |-> "i"]

DEFAULT_EXCLUSIONS ==
    [patterns |-> <<Re("^PROD_"), Re("_PROD$"), Re("_BACKUP$"),
                    Re("_ARCHIVE$"), Re("^SYSTEM_")>>,
     objectTypes |-> <<"SNAPSHOT">>]

DEFAULT_CONFIG ==
    [exclusions |-> DEFAULT_EXCLUSIONS, guardrail |-> [maxScalarRows |-> MaxScalarRows]]

\* a project.yaml that lists its own rules
ProjectConfig ==
    [exclusions |-> [patterns |-> <<Re("_audit$"), Re("^prod_")>>, objectTypes |-> <<>>],
     guardrail |-> [maxScalarRows |-> 10]]

Configs == {DEFAULT_CONFIG, ProjectConfig}

(***************************************************************************)
(* Query tools                                                             *)
(***************************************************************************)
DefaultLimit == 100

createErrorResponse(error, message, code) ==
    [kind |-> "error",
     text |-> JSONstringify(Obj(<<"error", "message", "code">>,
                                <<StrV(error), StrV(message), StrV(code)>>)),
     isError |-> TRUE, error |-> error, code |-> code]

\* ExecuteSQLSchema / ExecuteScalarSchema: the messages of the failed checks
SchemaErrors(tool, input) ==
    (IF input.query = "" THEN <<"String must contain at least 1 character(s)">> ELSE <<>>)
    \o (IF tool = "execute_scalar" /\ input.limit < 1
        THEN <<"Number must be greater than or equal to 1">> ELSE <<>>)

RECURSIVE JoinStrings(_, _)
JoinStrings(seq, sep) ==
    IF seq = <<>> THEN ""
    ELSE IF Len(seq) = 1 THEN seq[1]
    ELSE seq[1] \o sep \o JoinStrings(Tail(seq), sep)

\* the loop over objectNames: the index of the first excluded name, 0 if none
FirstExcluded_headOnly(checker, objectNames) ==
    IF objectNames # <<>> /\ check(checker, objectNames[1]).isExcluded THEN 1 ELSE 0

FirstExcluded(checker, objectNames) ==
    LET hits == {i \in 1..Len(objectNames) : check(checker, objectNames[i]).isExcluded}
    IN  IF hits = {} THEN 0 ELSE Min(hits)

addLimitIfNeeded(query, limit) ==
    LET upperQuery == toUpperCase(query)
    IN  IF StrIncludes(upperQuery, "LIMIT") THEN query
        ELSE query \o " LIMIT " \o ToString(limit)

MinOf(a, b) == IF a < b THEN a ELSE b

\* stdout.split('\n').filter(Boolean).length
RECURSIVE NonEmptyLines(_, _)
NonEmptyLines(s, inLine) ==
    IF Len(s) = 0 THEN (IF inLine THEN 1 ELSE 0)
    ELSE IF Ch(s, 1) = "\n"
         THEN (IF inLine THEN 1 ELSE 0) + NonEmptyLines(Tail(s), FALSE)
         ELSE NonEmptyLines(Tail(s), TRUE)

\* what executeSqlTool returns once executeSQL has resolved
SqlResult_passThrough(queryType, result) ==
    IF result.exitCode # 0
    THEN createErrorResponse("CLI_ERROR",
             IF result.stderr # "" THEN result.stderr ELSE "Unknown error", "E1002")
    ELSE [kind |-> "result", text |-> result.stdout, queryType |-> queryType.type]

SqlResult(queryType, result) ==
    IF result.exitCode # 0
    THEN createErrorResponse("CLI_ERROR",
             IF result.stderr # "" THEN result.stderr ELSE "Unknown error", "E1002")
    ELSE IF queryType.type = "metadata" \/ queryType.type = "data"
    THEN [kind |-> "result", text |-> redactJsonResult(result.stdout),
          queryType |-> queryType.type]
    ELSE [kind |-> "result", text |-> result.stdout, queryType |-> queryType.type]

\* what executeScalarTool returns once executeSQL has resolved
ScalarResult(result) ==
    IF result.exitCode # 0
    THEN createErrorResponse("CLI_ERROR",
             IF result.stderr # "" THEN result.stderr ELSE "Unknown error", "E1002")
    ELSE LET p == JSONparse(result.stdout)
             rowCount == IF p.ok
                         THEN (IF p.value.t = "array" THEN Len(p.value.items) ELSE 1)
                         ELSE NonEmptyLines(result.stdout.raw, FALSE)
         IN  [kind |-> "result", text |-> result.stdout, queryType |-> "scalar",
              rowCount |-> rowCount]

(***************************************************************************)
(* Requests and executor outcomes of the tool run                          *)
(***************************************************************************)
ToolQueries == {
    Part("SELECT * FROM users", {"users"}),
    Part("SELECT * FROM PROD_orders", {"PROD_orders"}),
    Part("SELECT COUNT(*) FROM users", {"users"}),
    Part("SELECT COUNT(*) FROM PROD_orders", {"PROD_orders"}),
    Part("SHOW TABLES", {}),
    Part("SELECT * FROM users JOIN PROD_audit ON 1 = 1", {"users", "PROD_audit"}),
    Part("select * from INFORMATION_SCHEMA.TABLES limit 5", {"INFORMATION_SCHEMA.TABLES"}),
    Part("SELECT * FROM orders_backup JOIN system_log ON 1 = 1", {"orders_backup", "system_log"}),
    Part("SELECT MAX(id) FROM snapshot", {"snapshot"}),
    Part("INSERT INTO users SELECT * FROM dev_audit", {"dev_audit"}),
    Part("SELECT * FROM PROXY_TEST.PUBLIC.PROD_RESTRICTED",
         {"PROXY_TEST.PUBLIC.PROD_RESTRICTED"}),
    Part("", {})}

Limits == {DefaultLimit, 5000, 0}

Requests ==
    {[tool |-> "execute_sql", input |-> [query |-> q.text], tables |-> q.tables] :
        q \in ToolQueries}
    \cup {[tool |-> "execute_scalar", input |-> [query |-> q.text, limit |-> l],
           tables |-> q.tables] : q \in ToolQueries, l \in Limits}

ToolRows == {Obj(<<"id", "name">>, <<i, n>>) : i \in IdValues, n \in {StrV("Alice"), Null}}

ToolRowLists == UNION {[1..k -> ToolRows] : k \in 0..MaxRows}

ToolOutputs ==
    {JsonText(Arr(rs)) : rs \in ToolRowLists}
    \cup {JsonText(Obj(<<"columns", "rows", "rowCount">>,
                       <<ColumnDefs, Arr(rs), RowCountOf(rs)>>)) : rs \in ToolRowLists}
    \cup {JsonText(r) : r \in ToolRows}
    \cup {JsonText(v) : v \in {Num("5"), Num("7"), StrV("Alice"), Null,
                               Arr(<<StrV("ab")>>), Arr(<<StrV("abc")>>)}}
    \cup {PlainText("COUNT(*)\n5\n"), PlainText("COUNT(*)\n7\n"), PlainText("")}

ExecutorResults ==
    {[exitCode |-> 0, stdout |-> t, stderr |-> ""] : t \in ToolOutputs}
    \cup {[exitCode |-> 1, stdout |-> PlainText(""), stderr |-> "SQL compilation error"],
          [exitCode |-> 1, stdout |-> PlainText(""), stderr |-> ""],
          [exitCode |-> 124, stdout |-> PlainText(""), stderr |-> "Command timed out"]}

InitTool ==
    /\ call = NoCall
    /\ ret = NoRet
    /\ pc = "idle"
    /\ request = [tool |-> "none"]
    /\ config \in Configs
    /\ executor = [kind |-> "none"]
    /\ execLog = <<>>
    /\ response = [kind |-> "none"]
    /\ IdleSync

\* the server dispatches a CallTool request to its handler
ReceiveRequest ==
    /\ pc = "idle"
    /\ request' \in Requests
    /\ pc' = "called"
    /\ UNCHANGED <<fnVars, syncVars, config, executor, execLog, response>>

\* executeSqlTool up to its await of executeSQL, or to an early return
ExecuteSqlTool ==
    /\ pc = "called"
    /\ request.tool = "execute_sql"
    /\ LET errors == SchemaErrors(request.tool, request.input)
           query == request.input.query
           objectNames == extractObjectNames(query)
           exclusionChecker == createExclusionChecker(config.exclusions.patterns,
                                                      config.exclusions.objectTypes)
           hit == FirstExcluded(exclusionChecker, objectNames)
       IN  IF errors # <<>>
           THEN /\ response' = createErrorResponse("INVALID_INPUT",
                                   JoinStrings(errors, ", "), "E1000")
                /\ pc' = "done"
                /\ UNCHANGED execLog
           ELSE IF hit # 0
           THEN /\ response' = createErrorResponse("EXCLUDED_OBJECT",
                     "Object '" \o objectNames[hit] \o "' matches exclusion pattern '"
                       \o check(exclusionChecker, objectNames[hit]).matchedPattern \o "'",
                     "E1001")
                /\ pc' = "done"
                /\ UNCHANGED execLog
           ELSE /\ execLog' = Append(execLog, query)
                /\ pc' = "awaiting"
                /\ UNCHANGED response
    /\ UNCHANGED <<fnVars, syncVars, request, config, executor>>

\* executeScalarTool up to its await of executeSQL, or to an early return
ExecuteScalarTool ==
    /\ pc = "called"
    /\ request.tool = "execute_scalar"
    /\ LET errors == SchemaErrors(request.tool, request.input)
           limitedQuery == addLimitIfNeeded(request.input.query,
                               MinOf(request.input.limit, config.guardrail.maxScalarRows))
       IN  IF errors # <<>>
           THEN /\ response' = createErrorResponse("INVALID_INPUT",
                                   JoinStrings(errors, ", "), "E1000")
                /\ pc' = "done"
                /\ UNCHANGED execLog
           ELSE /\ execLog' = Append(execLog, limitedQuery)
                /\ pc' = "awaiting"
                /\ UNCHANGED response
    /\ UNCHANGED <<fnVars, syncVars, request, config, executor>>

\* the executor's promise resolves with the outcome of the subprocess
ExecutorResolves ==
    /\ pc = "awaiting"
    /\ executor' \in ExecutorResults
    /\ pc' = "resumed"
    /\ UNCHANGED <<fnVars, syncVars, request, config, execLog, response>>

\* executeSqlTool after the await
ExecuteSqlToolReturn ==
    /\ pc = "resumed"
    /\ request.tool = "execute_sql"
    /\ response' = SqlResult(classifyQuery(request.input.query), executor)
    /\ pc' = "done"
    /\ UNCHANGED <<fnVars, syncVars, request, config, executor, execLog>>

\* executeScalarTool after the await
ExecuteScalarToolReturn ==
    /\ pc = "resumed"
    /\ request.tool = "execute_scalar"
    /\ response' = ScalarResult(executor)
    /\ pc' = "done"
    /\ UNCHANGED <<fnVars, syncVars, request, config, executor, execLog>>

Next ==
    \/ ReceiveRequest
    \/ ExecuteSqlTool
    \/ ExecuteScalarTool
    \/ ExecutorResolves
    \/ ExecuteSqlToolReturn
    \/ ExecuteScalarToolReturn

Spec == InitTool /\ [][Next]_vars

(***************************************************************************)
(* Properties of the query tools                                           *)
(***************************************************************************)
\* what two outputs have in common when they differ in row values only:
\* column names, the type of each value, the number of rows
RowShape(r) ==
    IF r.t = "object"
    THEN [keys |-> r.keys, types |-> [i \in 1..Len(r.vals) |-> typeof(r.vals[i])]]
    ELSE [type |-> typeof(r)]

RowsShape(a) ==
    IF a.t = "array"
    THEN [rows |-> [i \in 1..Len(a.items) |-> RowShape(a.items[i])]]
    ELSE [type |-> typeof(a)]

Shape(text) ==
    IF ~text.json THEN [kind |-> "plain"]
    ELSE LET v == text.value
         IN  CASE v.t = "array" -> [kind |-> "array", rows |-> RowsShape(v)]
               [] v.t = "object" /\ (HasKey(v, "columns") \/ HasKey(v, "rows")) ->
                    [kind |-> "table", columns |-> GetProp(v, "columns"),
                     rowCount |-> GetProp(v, "rowCount"),
                     rows |-> RowsShape(GetProp(v, "rows"))]
               [] v.t = "object" -> [kind |-> "row", row |-> RowShape(v)]
               [] OTHER -> [kind |-> typeof(v)]

\* every row of the output is an object keyed by column name
RowsAreObjects(text) ==
    (text.json /\ text.value.t = "array")
    => \A i \in 1..Len(text.value.items) : text.value.items[i].t = "object"

SqlSucceeded ==
    pc = "done" /\ request.tool = "execute_sql" /\ response.kind = "result"

\* the response execute_sql would give, had the executor printed text t
SqlResponseTo(t) ==
    SqlResult(classifyQuery(request.input.query), [executor EXCEPT !.stdout = t]).text

RequestChecker ==
    createExclusionChecker(config.exclusions.patterns, config.exclusions.objectTypes)

ExcludedNames(names) ==
    {i \in 1..Len(names) : check(RequestChecker, names[i]).isExcluded}

ValidSqlRequest ==
    request.tool = "execute_sql" /\ SchemaErrors(request.tool, request.input) = <<>>

\* C3: in execute_sql the exclusion check of every extracted name comes
\* before the executor: with an excluded name the executor is never invoked
\* and the tool returns EXCLUDED_OBJECT naming the matched pattern; the
\* executor is invoked only when no extracted name is excluded.
C3_CheckBeforeExecute ==
    ValidSqlRequest =>
        LET names == extractObjectNames(request.input.query)
            excluded == ExcludedNames(names)
        IN  /\ execLog # <<>> => excluded = {}
            /\ (excluded # {} /\ pc = "done") =>
                   /\ response.kind = "error"
                   /\ response.error = "EXCLUDED_OBJECT"
                   /\ StrIncludes(GetProp(response.text.value, "message").v,
                          "'" \o check(RequestChecker, names[Min(excluded)]).matchedPattern
                              \o "'")
            /\ (excluded = {} /\ pc \in {"awaiting", "resumed", "done"}) =>
                   execLog = <<request.input.query>>

C3_Witness ==
    /\ ValidSqlRequest
    /\ pc = "done"
    /\ request.input.query = "SELECT * FROM users JOIN PROD_audit ON 1 = 1"
    /\ ExcludedNames(extractObjectNames(request.input.query)) = {2}
    /\ response.kind = "error"
    /\ response.code = "E1001"
    /\ execLog = <<>>

\* C4: no request that carries caller-supplied SQL reaches the executor when
\* a table of its FROM clause is excluded, for execute_scalar as for
\* execute_sql.
C4_ExcludedNeverExecuted ==
    (request.tool \in {"execute_sql", "execute_scalar"} /\ execLog # <<>>)
    => \A t \in request.tables : ~check(RequestChecker, t).isExcluded

\* the object's own name of a qualified name: what follows its last dot
RECURSIVE BaseName(_)
BaseName(name) ==
    IF \E i \in 1..Len(name) : Ch(name, i) = "."
    THEN BaseName(Tail(name))
    ELSE name

\* C11: execute_sql blocks an excluded table also when the query names it
\* fully qualified: when the object name of db.schema.name matches a
\* configured pattern the executor is not invoked and the tool returns
\* EXCLUDED_OBJECT.
C11_QualifiedNameBlocked ==
    (ValidSqlRequest
     /\ \E t \in request.tables : check(RequestChecker, BaseName(t)).isExcluded)
    => /\ execLog = <<>>
       /\ pc = "done" => (response.kind = "error" /\ response.error = "EXCLUDED_OBJECT")

(***************************************************************************)
(* Sync tool: listing and DDL helpers                                      *)
(*                                                                         *)
(* An optional argument that is left out is the empty string: the code     *)
(* only tests such arguments for truthiness.                               *)
(***************************************************************************)
\* s.split(sep) for a separator of one character
RECURSIVE Split(_, _)
Split(s, sep) ==
    LET at == {i \in 1..Len(s) : Ch(s, i) = sep}
    IN  IF at = {} THEN <<s>>
        ELSE <<SubSeq(s, 1, Min(at) - 1)>> \o Split(SubSeq(s, Min(at) + 1, Len(s)), sep)

\* stdout.trim().split('\n').filter(Boolean)
Lines(stdout) == SelectSeq(Split(trim(stdout), "\n"), LAMBDA l : l # "")

\* s.replace(' ', '_'): the first blank only
ReplaceFirstBlank(s) ==
    LET at == {i \in 1..Len(s) : Ch(s, i) = " "}
    IN  IF at = {} THEN s
        ELSE SubSeq(s, 1, Min(at) - 1) \o "_" \o SubSeq(s, Min(at) + 1, Len(s))

NonEmpty(seq) == SelectSeq(seq, LAMBDA x : x # "")

\* listObjects up to its await: the arguments handed to executeSnowCLI
listObjectsArgs(objectType, database, schema) ==
    <<"object", "list", objectType, "--terse">>
    \o (IF database # "" \/ schema # ""
        THEN <<"--in", IF database # "" /\ schema # "" THEN database \o "." \o schema
                       ELSE IF database # "" THEN database ELSE schema>>
        ELSE <<>>)

\* listObjects after the await: the name of each listed item (the only field
\* the sync reads); the name is the cell under the last header that reads
\* "name", and empty when there is none
listObjects(result) ==
    IF result.exitCode # 0 THEN <<>>
    ELSE LET lines == Lines(result.stdout)
         IN  IF lines = <<>> THEN <<>>
             ELSE LET cells == Split(lines[1], "\t")
                      headers == [i \in 1..Len(cells) |-> toLowerCase(trim(cells[i]))]
                      named == {i \in 1..Len(headers) : headers[i] = "name"}
                      NameOf(line) ==
                          LET values == Split(line, "\t")
                          IN  IF named = {} \/ Max(named) > Len(values) THEN ""
                              ELSE trim(values[Max(named)])
                  IN  [j \in 1..(Len(lines) - 1) |-> NameOf(lines[j + 1])]

\* getDDL up to its await
getDDLArgs(objectType, objectName, database, schema) ==
    LET fullName == JoinStrings(NonEmpty(<<IF database # "" \/ schema # ""
                                           THEN database ELSE "",
                                           schema, objectName>>), ".")
        normalizedType == ReplaceFirstBlank(toUpperCase(objectType))
        ddlQuery == "SHOW CREATE " \o normalizedType \o " " \o fullName
    IN  <<"sql", "-q", ddlQuery>>

\* getDDL after the await: the last cell of the first line, "" on failure
getDDL(result) ==
    IF result.exitCode # 0 THEN ""
    ELSE LET lines == Lines(result.stdout)
         IN  IF lines = <<>> THEN ""
             ELSE LET values == Split(lines[1], "\t")
                  IN  trim(values[Len(values)])

\* path.join of plain segments
join(parts) == JoinStrings(parts, "/")

\* path.dirname
dirname(path) ==
    LET at == {i \in 1..Len(path) : Ch(path, i) = "/"}
    IN  IF at = {} THEN "." ELSE SubSeq(path, 1, Max(at) - 1)

(***************************************************************************)
(* The Snowflake account behind the snow CLI                               *)
(***************************************************************************)
LeafTypes == <<"table", "view", "function", "procedure", "stage", "task">>

\* what "snow object list <type> --in <scope>" shows, in listing order
Listing(type, scope) ==
    CASE type = "database" /\ scope = "" -> <<"DEV", "PROD_DB", "LOCKED">>
      [] type = "schema" /\ scope = "DEV" -> <<"PUBLIC", "OLD_BACKUP">>
      [] type = "schema" /\ scope = "PROD_DB" -> <<"PUBLIC">>
      [] type = "table" /\ scope = "DEV.PUBLIC" -> <<"users", "orders_archive", "login_audit">>
      [] type = "view" /\ scope = "DEV.PUBLIC" -> <<"v_users", "", "prod_summary">>
      [] type = "function" /\ scope = "DEV.PUBLIC" -> <<"f_tax">>
      [] type = "procedure" /\ scope = "DEV.PUBLIC" -> <<"p_load">>
      [] type = "stage" /\ scope = "DEV.PUBLIC" -> <<"s_land">>
      [] type = "task" /\ scope = "DEV.PUBLIC" -> <<"t_nightly">>
      [] type = "table" /\ scope = "DEV.OLD_BACKUP" -> <<"users_2020">>
      [] type = "view" /\ scope = "DEV.OLD_BACKUP" -> <<"v_2020">>
      [] type = "table" /\ scope = "PROD_DB.PUBLIC" -> <<"secrets">>
      [] OTHER -> <<>>

\* the scopes whose listing the role may not see
LockedScopes == {"LOCKED"}

\* the objects whose SHOW CREATE prints nothing
NoDdlObjects == {"DEV.PUBLIC.s_land"}

Scopes == {"", "DEV", "PROD_DB", "LOCKED", "DEV.PUBLIC", "DEV.OLD_BACKUP", "PROD_DB.PUBLIC"}

Qualified(scope, name) == IF scope = "" THEN name ELSE scope \o "." \o name

AccountObjects ==
    UNION {{[type |-> t, name |-> Qualified(sc, n)] : n \in Range(Listing(t, sc)) \ {""}} :
             t \in {"database", "schema"} \cup Range(LeafTypes), sc \in Scopes}

RECURSIVE Tsv(_)
Tsv(names) ==
    IF names = <<>> THEN ""
    ELSE Head(names) \o "\tSTANDARD\n" \o Tsv(Tail(names))

\* the outcome of one snow subprocess against the account
SnowCLI(account, args) ==
    IF args[1] = "object"
    THEN LET scope == IF Len(args) >= 6 THEN args[6] ELSE ""
         IN  IF scope \in LockedScopes
             THEN [exitCode |-> 1, stdout |-> "", stderr |-> "Insufficient privileges"]
             ELSE [exitCode |-> 0, stderr |-> "",
                   stdout |-> "Name\tkind\n" \o Tsv(Listing(args[3], scope))]
    ELSE LET shown == {o \in AccountObjects :
                         args[3] = "SHOW CREATE " \o toUpperCase(o.type) \o " " \o o.name}
         IN  IF shown = {} \/ \E o \in shown : o.name \in account.unavailable
             THEN [exitCode |-> 1, stdout |-> "", stderr |-> "SQL compilation error"]
             ELSE IF \E o \in shown : o.name \in NoDdlObjects
             THEN [exitCode |-> 0, stdout |-> "\n", stderr |-> ""]
             ELSE LET o == CHOOSE x \in shown : TRUE
                  IN  [exitCode |-> 0, stderr |-> "",
                       stdout |-> "create " \o o.type \o " " \o o.name \o "\n"]

(***************************************************************************)
(* Sync tool                                                               *)
(***************************************************************************)
FlagNames == {"includeDatabases", "includeSchemas", "includeTables", "includeViews",
              "includeFunctions", "includeProcedures", "includeStages", "includeTasks"}

FlagDefault(flag) ==
    flag \in {"includeDatabases", "includeSchemas", "includeTables", "includeViews"}

\* SyncObjectsSchema.safeParse: targetDir is required, a flag left out takes
\* its default
SyncObjectsSchema(input) ==
    [errors |-> IF "targetDir" \in DOMAIN input THEN <<>> ELSE <<"Required">>,
     data |-> [k \in FlagNames \cup {"targetDir"} |->
                 IF k \in DOMAIN input THEN input[k]
                 ELSE IF k = "targetDir" THEN "" ELSE FlagDefault(k)]]

\* the include flag and the directory of a category of schema objects
FlagOf(type) ==
    CASE type = "database" -> "includeDatabases"
      [] type = "schema" -> "includeSchemas"
      [] type = "table" -> "includeTables"
      [] type = "view" -> "includeViews"
      [] type = "function" -> "includeFunctions"
      [] type = "procedure" -> "includeProcedures"
      [] type = "stage" -> "includeStages"
      [] type = "task" -> "includeTasks"

DirOf(type) == type \o "s"

\* a loop still to start (its listing) and an iteration still to run
ListItem(type, database, schema) ==
    [op |-> "list", type |-> type, name |-> "", database |-> database, schema |-> schema]

ObjectItem(type, name, database, schema) ==
    [op |-> "object", type |-> type, name |-> name, database |-> database,
     schema |-> schema]

\* dbName, fullSchemaName, fullTableName, ...
FullNameOf(item) ==
    CASE item.type = "database" -> item.name
      [] item.type = "schema" -> item.database \o "." \o item.name
      [] OTHER -> item.database \o "." \o item.schema \o "." \o item.name

\* dbPath, schemaPath, tablePath, ...
PathOf(targetDir, item) ==
    CASE item.type = "database" -> join(<<targetDir, item.name, "_database.sql">>)
      [] item.type = "schema" ->
           join(<<targetDir, item.database, item.name, "_schema.sql">>)
      [] OTHER -> join(<<targetDir, item.database, item.schema, DirOf(item.type),
                         item.name \o ".sql">>)

RECURSIVE LeafLists(_, _, _, _)
LeafLists(data, database, schema, k) ==
    IF k > Len(LeafTypes) THEN <<>>
    ELSE (IF data[FlagOf(LeafTypes[k])]
          THEN <<ListItem(LeafTypes[k], database, schema)>> ELSE <<>>)
         \o LeafLists(data, database, schema, k + 1)

Children_ignoreFlags(data, item) ==
    CASE item.type = "database" -> <<ListItem("schema", item.name, "")>>
      [] item.type = "schema" ->
           LeafLists([k \in FlagNames |-> TRUE], item.database, item.name, 1)
      [] OTHER -> <<>>

\* the loops nested in the iteration of an object that was not excluded
Children(data, item) ==
    CASE item.type = "database" ->
           IF data.includeSchemas THEN <<ListItem("schema", item.name, "")>> ELSE <<>>
      [] item.type = "schema" -> LeafLists(data, item.database, item.name, 1)
      [] OTHER -> <<>>

SyncData == SyncObjectsSchema(request.input).data

CountStatus(results, status) ==
    Cardinality({i \in 1..Len(results) : results[i].status = status})

WriteFile(fs, path, content) == (path :> content) @@ fs

Timestamps == {"2026-01-01T00:00:00.000Z", "2026-01-02T00:00:00.000Z"}

(***************************************************************************)
(* Requests and accounts of the sync run                                   *)
(***************************************************************************)
MaxUnavailable == 1    \* most objects whose DDL the account refuses to show

Breakable == {"DEV", "DEV.PUBLIC", "DEV.PUBLIC.users", "DEV.PUBLIC.v_users"}

Remotes ==
    {[unavailable |-> u] : u \in {x \in SUBSET Breakable : Cardinality(x) <= MaxUnavailable}}

TargetOnly == "targetDir" :> "repo"

AllFlags == [k \in FlagNames |-> TRUE] @@ TargetOnly

SyncInputs ==
    {TargetOnly, AllFlags, [k \in FlagNames |-> TRUE]}
    \cup {(k :> ~FlagDefault(k)) @@ TargetOnly : k \in FlagNames}
    \cup {(k :> FALSE) @@ AllFlags : k \in FlagNames}

SyncRequests == {[tool |-> "sync_objects", input |-> i] : i \in SyncInputs}

InitSync ==
    /\ call = NoCall
    /\ ret = NoRet
    /\ pc = "idle"
    /\ request = [tool |-> "none"]
    /\ config \in Configs
    /\ executor = [kind |-> "none"]
    /\ execLog = <<>>
    /\ response = [kind |-> "none"]
    /\ remote \in Remotes
    /\ env = NoEnv
    /\ todo = <<>>
    /\ syncResults = <<>>
    /\ files = NoFiles
    /\ fsLog = <<>>
    /\ previous = [runs |-> 0, files |-> NoFiles]
    /\ procs = <<>>

ReceiveSyncRequest ==
    /\ pc = "idle"
    /\ request' \in SyncRequests
    /\ pc' = "called"
    /\ UNCHANGED <<fnVars, config, executor, execLog, response, syncVars>>

\* executeSnowCLI up to the return of its promise: the subprocess is
\* spawned and, the timeout being positive, the timer set
NoResult == [exitCode |-> -1, stdout |-> "", stderr |-> "", settled |-> FALSE]

Spawned == [alive |-> TRUE, signalled |-> FALSE, timer |-> "set", resolves |-> 0,
            event |-> "none", code |-> 0, result |-> NoResult]

\* resolve(value): settles the promise the first time, does nothing afterwards
Resolve(proc, value) ==
    [proc EXCEPT !.resolves = @ + 1,
                 !.result = IF @.settled THEN @
                            ELSE [exitCode |-> value.exitCode, stdout |-> value.stdout,
                                  stderr |-> value.stderr, settled |-> TRUE]]

\* the callback of setTimeout
OnTimeout(proc) ==
    Resolve([proc EXCEPT !.signalled = TRUE, !.timer = "fired"],
            [exitCode |-> 124, stdout |-> "", stderr |-> "Command timed out"])

\* the callback of the close event; code -1 stands for null, the code of a
\* subprocess ended by a signal
NullCode == -1

OnClose(proc, code, stdout, stderr) ==
    Resolve([proc EXCEPT !.alive = FALSE, !.event = "close", !.code = code,
                         !.timer = IF @ = "set" THEN "cleared" ELSE @],
            [exitCode |-> IF code = NullCode THEN 1 ELSE code,
             stdout |-> stdout, stderr |-> stderr])

\* the callback of the error event
OnError(proc, message) ==
    Resolve([proc EXCEPT !.alive = FALSE, !.event = "error",
                         !.timer = IF @ = "set" THEN "cleared" ELSE @],
            [exitCode |-> 1, stdout |-> "", stderr |-> message])

\* what the awaiting caller gets: the value the promise settled with
Settled(proc) ==
    [exitCode |-> proc.result.exitCode, stdout |-> proc.result.stdout,
     stderr |-> proc.result.stderr]

\* entries of the file-system log; ensureDir catches a rejected mkdir
Mkdir(path, ok) == [op |-> "mkdir", path |-> path, ok |-> ok]

WriteCall(path, ok) == [op |-> "writeFile", path |-> path, ok |-> ok]

\* syncObjectsTool up to the loop over the databases, or to its early return;
\* ensureDir(targetDir) goes on whether mkdir succeeded or not
SyncObjectsTool ==
    /\ pc = "called"
    /\ request.tool = "sync_objects"
    /\ LET parsed == SyncObjectsSchema(request.input)
       IN  IF parsed.errors # <<>>
           THEN /\ response' = createErrorResponse("INVALID_INPUT",
                                   JoinStrings(parsed.errors, ", "), "E4000")
                /\ pc' = "done"
                /\ UNCHANGED <<todo, fsLog>>
           ELSE /\ \E ok \in BOOLEAN :
                       fsLog' = Append(fsLog, Mkdir(parsed.data.targetDir, ok))
                /\ todo' = IF parsed.data.includeDatabases
                           THEN <<ListItem("database", "", "")>> ELSE <<>>
                /\ pc' = "walking"
                /\ UNCHANGED response
    /\ UNCHANGED <<fnVars, procs, request, config, executor, execLog, remote, env, previous,
                   syncResults, files>>

\* the head of a loop: listObjects is called
SyncList ==
    /\ pc = "walking"
    /\ todo # <<>>
    /\ Head(todo).op = "list"
    /\ execLog' = Append(execLog, listObjectsArgs(Head(todo).type, Head(todo).database,
                                                  Head(todo).schema))
    /\ procs' = Append(procs, Spawned)
    /\ pc' = "awaiting"
    /\ UNCHANGED <<fnVars, request, config, executor, response, walkVars>>

SyncObject_fetchExcluded ==
    /\ pc = "walking"
    /\ todo # <<>>
    /\ Head(todo).op = "object"
    /\ LET item == Head(todo)
           exclusionChecker == createExclusionChecker(config.exclusions.patterns,
                                                      config.exclusions.objectTypes)
       IN  IF item.name = ""
           THEN /\ todo' = Tail(todo)
                /\ UNCHANGED <<pc, execLog, syncResults, procs>>
           ELSE /\ syncResults' =
                       IF check(exclusionChecker, FullNameOf(item)).isExcluded
                       THEN Append(syncResults,
                                [type |-> item.type, name |-> FullNameOf(item),
                                 status |-> "skipped", error |-> "Excluded by pattern"])
                       ELSE syncResults
                /\ execLog' = Append(execLog, getDDLArgs(item.type, item.name,
                                                         item.database, item.schema))
                /\ procs' = Append(procs, Spawned)
                /\ pc' = "awaiting"
                /\ UNCHANGED todo
    /\ UNCHANGED <<fnVars, request, config, executor, response, remote, env, previous, files,
                   fsLog>>

\* one iteration up to its getDDL call: a nameless item is passed over, an
\* excluded one recorded as skipped, and for any other the DDL is asked for
SyncObject ==
    /\ pc = "walking"
    /\ todo # <<>>
    /\ Head(todo).op = "object"
    /\ LET item == Head(todo)
           exclusionChecker == createExclusionChecker(config.exclusions.patterns,
                                                      config.exclusions.objectTypes)
       IN  IF item.name = ""
           THEN /\ todo' = Tail(todo)
                /\ UNCHANGED <<pc, execLog, syncResults, procs>>
           ELSE IF check(exclusionChecker, FullNameOf(item)).isExcluded
           THEN /\ syncResults' = Append(syncResults,
                       [type |-> item.type, name |-> FullNameOf(item),
                        status |-> "skipped", error |-> "Excluded by pattern"])
                /\ todo' = Tail(todo)
                /\ UNCHANGED <<pc, execLog, procs>>
           ELSE /\ execLog' = Append(execLog, getDDLArgs(item.type, item.name,
                                                         item.database, item.schema))
                /\ procs' = Append(procs, Spawned)
                /\ pc' = "awaiting"
                /\ UNCHANGED <<todo, syncResults>>
    /\ UNCHANGED <<fnVars, request, config, executor, response, remote, env, previous, files,
                   fsLog>>

\* the snow subprocess of the pending call ends before the timer fires: the
\* close event settles the promise with what the subprocess printed and its
\* exit code
SnowCLIResolves ==
    /\ pc = "awaiting"
    /\ request.tool \in {"sync_objects", "check_staleness"}
    /\ LET out == SnowCLI(remote, execLog[Len(execLog)])
           n == Len(procs)
       IN  /\ procs[n].alive
           /\ procs[n].timer = "set"
           /\ procs' = [procs EXCEPT ![n] = OnClose(@, out.exitCode, out.stdout, out.stderr)]
           /\ executor' = Settled(procs'[n])
    /\ pc' = "resumed"
    /\ UNCHANGED <<fnVars, request, config, execLog, response, walkVars>>

\* listObjects returns: the loop runs over the listed items
SyncListed ==
    /\ pc = "resumed"
    /\ request.tool = "sync_objects"
    /\ Head(todo).op = "list"
    /\ LET item == Head(todo)
           names == listObjects(executor)
       IN  todo' = [i \in 1..Len(names) |->
                      ObjectItem(item.type, names[i], item.database, item.schema)]
                   \o Tail(todo)
    /\ pc' = "walking"
    /\ UNCHANGED <<fnVars, procs, request, config, executor, execLog, response, remote, env, previous,
                   syncResults, files, fsLog>>

SyncFetched_stopOnEmpty ==
    /\ pc = "resumed"
    /\ request.tool = "sync_objects"
    /\ Head(todo).op = "object"
    /\ LET item == Head(todo)
           ddl == getDDL(executor)
           path == PathOf(SyncData.targetDir, item)
       IN  IF ddl # ""
           THEN /\ files' = WriteFile(files, path, [kind |-> "ddl", text |-> ddl])
                /\ fsLog' = fsLog \o <<Mkdir(dirname(path), TRUE), WriteCall(path, TRUE)>>
                /\ syncResults' = Append(syncResults,
                       [type |-> item.type, name |-> FullNameOf(item),
                        status |-> "synced", path |-> path])
                /\ todo' = Children(SyncData, item) \o Tail(todo)
           ELSE /\ todo' = Tail(todo)
                /\ UNCHANGED <<files, fsLog, syncResults>>
    /\ pc' = "walking"
    /\ UNCHANGED <<fnVars, procs, request, config, executor, execLog, response, remote, env, previous>>

SyncFetched_appendToFile ==
    /\ pc = "resumed"
    /\ request.tool = "sync_objects"
    /\ Head(todo).op = "object"
    /\ LET item == Head(todo)
           ddl == getDDL(executor)
           path == PathOf(SyncData.targetDir, item)
       IN  /\ IF ddl # ""
              THEN /\ files' = WriteFile(files, path,
                            [kind |-> "ddl",
                             text |-> IF path \in DOMAIN files
                                      THEN files[path].text \o ddl ELSE ddl])
                   /\ fsLog' = fsLog \o <<Mkdir(dirname(path), TRUE),
                                           WriteCall(path, TRUE)>>
                   /\ syncResults' = Append(syncResults,
                          [type |-> item.type, name |-> FullNameOf(item),
                           status |-> "synced", path |-> path])
              ELSE UNCHANGED <<files, fsLog, syncResults>>
           /\ todo' = Children(SyncData, item) \o Tail(todo)
    /\ pc' = "walking"
    /\ UNCHANGED <<fnVars, procs, request, config, executor, execLog, response, remote, env, previous>>

\* getDDL returns: a DDL that is not empty is written and recorded, then the
\* nested loops follow
SyncFetched ==
    /\ pc = "resumed"
    /\ request.tool = "sync_objects"
    /\ Head(todo).op = "object"
    /\ LET item == Head(todo)
           ddl == getDDL(executor)
           path == PathOf(SyncData.targetDir, item)
       IN  /\ IF ddl # ""
              THEN /\ files' = WriteFile(files, path, [kind |-> "ddl", text |-> ddl])
                   /\ fsLog' = fsLog \o <<Mkdir(dirname(path), TRUE),
                                           WriteCall(path, TRUE)>>
                   /\ syncResults' = Append(syncResults,
                          [type |-> item.type, name |-> FullNameOf(item),
                           status |-> "synced", path |-> path])
              ELSE UNCHANGED <<files, fsLog, syncResults>>
           /\ todo' = Children(SyncData, item) \o Tail(todo)
    /\ pc' = "walking"
    /\ UNCHANGED <<fnVars, procs, request, config, executor, execLog, response, remote, env, previous>>

\* getDDL returns and writeFile rejects: the catch block answers SYNC_ERROR
SyncWriteFails ==
    /\ pc = "resumed"
    /\ request.tool = "sync_objects"
    /\ Head(todo).op = "object"
    /\ getDDL(executor) # ""
    /\ LET path == PathOf(SyncData.targetDir, Head(todo))
       IN  \E made \in BOOLEAN :
               fsLog' = fsLog \o <<Mkdir(dirname(path), made), WriteCall(path, FALSE)>>
    /\ response' = createErrorResponse("SYNC_ERROR", "EACCES: permission denied", "E4001")
    /\ pc' = "done"
    /\ UNCHANGED <<fnVars, procs, request, config, executor, execLog, remote, env, previous, todo,
                   syncResults, files>>

SyncFinish_countAll ==
    /\ pc = "walking"
    /\ todo = <<>>
    /\ LET targetDir == SyncData.targetDir
           indexPath == join(<<targetDir, ".object-repository.json">>)
       IN  /\ \E now \in Timestamps :
                  files' = WriteFile(files, indexPath,
                      [kind |-> "index", lastSync |-> now, targetDir |-> targetDir,
                       objectCount |-> Len(syncResults),
                       skippedCount |-> CountStatus(syncResults, "skipped"),
                       errorCount |-> CountStatus(syncResults, "error"),
                       objects |-> syncResults])
           /\ fsLog' = Append(fsLog, WriteCall(indexPath, TRUE))
           /\ response' = [kind |-> "result",
                           synced |-> Len(syncResults),
                           skipped |-> CountStatus(syncResults, "skipped"),
                           errors |-> CountStatus(syncResults, "error"),
                           results |-> syncResults,
                           indexPath |-> indexPath]
    /\ pc' = "done"
    /\ UNCHANGED <<fnVars, procs, request, config, executor, execLog, remote, env, previous, todo,
                   syncResults>>

\* after the loops: the index file is written and the summary returned
SyncFinish ==
    /\ pc = "walking"
    /\ todo = <<>>
    /\ LET targetDir == SyncData.targetDir
           indexPath == join(<<targetDir, ".object-repository.json">>)
       IN  /\ \E now \in Timestamps :
                  files' = WriteFile(files, indexPath,
                      [kind |-> "index", lastSync |-> now, targetDir |-> targetDir,
                       objectCount |-> CountStatus(syncResults, "synced"),
                       skippedCount |-> CountStatus(syncResults, "skipped"),
                       errorCount |-> CountStatus(syncResults, "error"),
                       objects |-> syncResults])
           /\ fsLog' = Append(fsLog, WriteCall(indexPath, TRUE))
           /\ response' = [kind |-> "result",
                           synced |-> CountStatus(syncResults, "synced"),
                           skipped |-> CountStatus(syncResults, "skipped"),
                           errors |-> CountStatus(syncResults, "error"),
                           results |-> syncResults,
                           indexPath |-> indexPath]
    /\ pc' = "done"
    /\ UNCHANGED <<fnVars, procs, request, config, executor, execLog, remote, env, previous, todo,
                   syncResults>>

\* after the loops, writeFile of the index rejects
SyncIndexFails ==
    /\ pc = "walking"
    /\ todo = <<>>
    /\ fsLog' = Append(fsLog,
                       WriteCall(join(<<SyncData.targetDir, ".object-repository.json">>),
                                 FALSE))
    /\ response' = createErrorResponse("SYNC_ERROR", "EACCES: permission denied", "E4001")
    /\ pc' = "done"
    /\ UNCHANGED <<fnVars, procs, request, config, executor, execLog, remote, env, previous, todo,
                   syncResults, files>>

NextSync ==
    \/ ReceiveSyncRequest
    \/ SyncObjectsTool
    \/ SyncList
    \/ SyncObject
    \/ SnowCLIResolves
    \/ SyncListed
    \/ SyncFetched
    \/ SyncWriteFails
    \/ SyncFinish
    \/ SyncIndexFails

SpecSync == InitSync /\ [][NextSync]_vars

(***************************************************************************)
(* Properties of the sync tool                                             *)
(***************************************************************************)
EndsWith(s, sub) ==
    Len(s) >= Len(sub) /\ SubSeq(s, Len(s) - Len(sub) + 1, Len(s)) = sub

\* name is the object itself or lies inside it
Within(name, container) == name = container \/ StartsWith(name, container \o ".")

\* the names of the account that the exclusion check reports as excluded,
\* for each configuration
ExcludedUnder ==
    [c \in Configs |->
        {o.name : o \in {x \in AccountObjects :
            check(createExclusionChecker(c.exclusions.patterns,
                                         c.exclusions.objectTypes), x.name).isExcluded}}]

SyncExcluded(name) == name \in ExcludedUnder[config]

\* the calls of the log that ask for the DDL of an object, and those that
\* list a scope
DdlCalls(name) ==
    {i \in 1..Len(execLog) :
        execLog[i][1] = "sql" /\ EndsWith(execLog[i][3], " " \o name)}

ListCallsIn(container) ==
    {i \in 1..Len(execLog) :
        /\ execLog[i][1] = "object"
        /\ Len(execLog[i]) >= 6
        /\ Within(execLog[i][6], container)}

RecordsOf(name) == {i \in 1..Len(syncResults) : syncResults[i].name = name}

\* the file of an object, and the directory of a database or schema
FileOf(o) ==
    LET parts == Split(o.name, ".")
    IN  CASE o.type = "database" -> join(<<"repo", parts[1], "_database.sql">>)
          [] o.type = "schema" -> join(<<"repo", parts[1], parts[2], "_schema.sql">>)
          [] OTHER -> join(<<"repo", parts[1], parts[2], DirOf(o.type),
                             parts[3] \o ".sql">>)

DirectoryOf(o) == join(<<"repo">> \o Split(o.name, "."))

ParentOf(o) ==
    LET parts == Split(o.name, ".")
    IN  JoinStrings(SubSeq(parts, 1, Len(parts) - 1), ".")

\* the walk comes to the object: its category and the categories above it
\* are included and no database or schema above it is excluded
RECURSIVE Visited(_)
Visited(o) ==
    /\ SyncData[FlagOf(o.type)]
    /\ o.type # "database" =>
          LET above == CHOOSE a \in AccountObjects :
                          /\ a.name = ParentOf(o)
                          /\ a.type = IF o.type = "schema" THEN "database" ELSE "schema"
          IN  Visited(above) /\ ~SyncExcluded(above.name)

SyncRunning == request.tool = "sync_objects" /\ pc \notin {"idle", "called"}

\* C18: during sync an object whose name the exclusion check reports as
\* excluded gets one SyncResult, skipped with error "Excluded by pattern"
\* (exactly one once the walk is over and has come to it); its DDL is never
\* fetched and no file is written for it; for a database or schema nothing
\* inside it is listed, fetched, written or recorded.
C18_ExcludedSkippedNotDescended ==
    SyncRunning =>
        \A o \in AccountObjects :
            SyncExcluded(o.name) =>
                /\ Cardinality(RecordsOf(o.name)) <= 1
                /\ \A i \in RecordsOf(o.name) :
                       syncResults[i] = [type |-> o.type, name |-> o.name,
                                         status |-> "skipped",
                                         error |-> "Excluded by pattern"]
                /\ (response.kind = "result" /\ Visited(o)) => RecordsOf(o.name) # {}
                /\ DdlCalls(o.name) = {}
                /\ FileOf(o) \notin DOMAIN files
                /\ o.type \in {"database", "schema"} =>
                       /\ ListCallsIn(o.name) = {}
                       /\ \A c \in AccountObjects :
                              (c # o /\ Within(c.name, o.name)) =>
                                  RecordsOf(c.name) = {} /\ DdlCalls(c.name) = {}
                       /\ \A path \in DOMAIN files :
                              ~StartsWith(path, DirectoryOf(o) \o "/")

\* a finished walk that skipped a database, a schema and a table, and
\* synced the objects beside them
C18_Witness ==
    /\ request.tool = "sync_objects"
    /\ response.kind = "result"
    /\ \A t \in {"database", "schema", "table"} :
           \E i \in 1..Len(syncResults) :
               syncResults[i].type = t /\ syncResults[i].status = "skipped"
    /\ \A t \in {"database", "schema", "table"} :
           \E i \in 1..Len(syncResults) :
               syncResults[i].type = t /\ syncResults[i].status = "synced"
    /\ "repo/DEV/PUBLIC/tables/users.sql" \in DOMAIN files

AllTypes == {"database", "schema"} \cup Range(LeafTypes)

\* the calls of the log that list, or ask for the DDL of, objects of a type
CallsOfType(type) ==
    {i \in 1..Len(execLog) :
        \/ execLog[i][1] = "object" /\ execLog[i][3] = type
        \/ /\ execLog[i][1] = "sql"
           /\ StartsWith(execLog[i][3], "SHOW CREATE " \o toUpperCase(type) \o " ")}

\* C19: a sync run whose include flag for a category is false never emits a
\* SyncResult of that type and makes no list or DDL call for that category.
C19_ExcludedCategorySilent ==
    SyncRunning =>
        \A type \in AllTypes :
            ~SyncData[FlagOf(type)] =>
                /\ \A i \in 1..Len(syncResults) : syncResults[i].type # type
                /\ CallsOfType(type) = {}

\* a finished run without tables that synced a view
C19_Witness ==
    /\ request.tool = "sync_objects"
    /\ response.kind = "result"
    /\ ~SyncData.includeTables
    /\ \E i \in 1..Len(syncResults) :
           syncResults[i].type = "view" /\ syncResults[i].status = "synced"
    /\ CallsOfType("view") # {}
    /\ CallsOfType("table") = {}

\* C20: the sync categories are independently toggle-able: whether the
\* objects of a category are listed and synced depends on that category's
\* own flag only; with includeTables the tables of every schema that is not
\* excluded are synced, also without includeDatabases or includeSchemas.
C20_CategoriesIndependent ==
    (/\ request.tool = "sync_objects"
     /\ response.kind = "result"
     /\ SyncData.includeTables)
    => \A o \in AccountObjects :
          (/\ o.type = "table"
           /\ \A a \in AccountObjects : Within(o.name, a.name) => ~SyncExcluded(a.name)
           /\ o.name \notin remote.unavailable)
          => \E i \in 1..Len(syncResults) :
                 syncResults[i] = [type |-> "table", name |-> o.name,
                                   status |-> "synced", path |-> FileOf(o)]

\* no database or schema around the object, nor the object itself, is excluded
Allowed(o) == \A a \in AccountObjects : Within(o.name, a.name) => ~SyncExcluded(a.name)

\* SHOW CREATE of the object succeeds with a text
Fetchable(o) == o.name \notin (remote.unavailable \cup NoDdlObjects)

IndexPath == join(<<"repo", ".object-repository.json">>)

\* C21: for an allowed object whose DDL fetch fails or returns empty text,
\* sync writes no file and appends no SyncResult, and processing continues:
\* a run that ends with the success response has synced every other allowed
\* object the walk comes to, those inside the failed database or schema
\* included, and has written the index; a SYNC_ERROR never comes from the
\* failed fetch.
C21_FailedFetchIsPassedOver ==
    SyncRunning =>
        /\ \A o \in AccountObjects :
               (Allowed(o) /\ ~Fetchable(o)) =>
                   RecordsOf(o.name) = {} /\ FileOf(o) \notin DOMAIN files
        /\ response.kind = "result" =>
               /\ IndexPath \in DOMAIN files
               /\ \A o \in AccountObjects :
                      (Allowed(o) /\ Fetchable(o) /\ Visited(o)) =>
                          /\ FileOf(o) \in DOMAIN files
                          /\ \E i \in RecordsOf(o.name) : syncResults[i].status = "synced"
        /\ response.kind = "error" => (todo = <<>> \/ getDDL(executor) # "")

\* a finished run in which the DDL of schema DEV.PUBLIC could not be
\* fetched and its table users was synced all the same
C21_Witness ==
    /\ request.tool = "sync_objects"
    /\ response.kind = "result"
    /\ remote.unavailable = {"DEV.PUBLIC"}
    /\ RecordsOf("DEV.PUBLIC") = {}
    /\ \E i \in RecordsOf("DEV.PUBLIC.users") : syncResults[i].status = "synced"
    /\ "repo/DEV/PUBLIC/tables/users.sql" \in DOMAIN files
    /\ "repo/DEV/PUBLIC/_schema.sql" \notin DOMAIN files
    /\ IndexPath \in DOMAIN files

\* the places of the file-system log where a call was rejected
FailedCalls == {i \in 1..Len(fsLog) : ~fsLog[i].ok}

TopLevelFailures ==
    {i \in FailedCalls :
        \/ fsLog[i] = Mkdir("repo", FALSE)
        \/ fsLog[i] = WriteCall(IndexPath, FALSE)}

\* C22: a failure creating the target directory or writing the index aborts
\* the whole sync run: no executor call and no file-system call follows it,
\* and the run ends with the SYNC_ERROR response, which carries no results.
C22_TopLevelFailureAborts ==
    (SyncRunning /\ TopLevelFailures # {})
    => /\ \A i \in TopLevelFailures : i = Len(fsLog)
       /\ Mkdir("repo", FALSE) \in Range(fsLog) => execLog = <<>>
       /\ pc = "done" => (response.kind = "error" /\ response.error = "SYNC_ERROR")

(***************************************************************************)
(* Repeated sync runs                                                      *)
(***************************************************************************)
MaxRuns == 2    \* most sync runs in a row

\* the client sends the same sync request once more after a run that
\* succeeded; the files stay on disk, the account and the rules are as before
SyncAgain ==
    /\ pc = "done"
    /\ request.tool = "sync_objects"
    /\ response.kind = "result"
    /\ previous.runs + 1 < MaxRuns
    /\ previous' = [runs |-> previous.runs + 1, files |-> files]
    /\ pc' = "called"
    /\ response' = [kind |-> "none"]
    /\ executor' = [kind |-> "none"]
    /\ execLog' = <<>>
    /\ fsLog' = <<>>
    /\ todo' = <<>>
    /\ syncResults' = <<>>
    /\ procs' = <<>>
    /\ UNCHANGED <<fnVars, request, config, remote, env, files>>

NextResync == NextSync \/ SyncAgain

SpecResync == InitSync /\ [][NextResync]_vars

(***************************************************************************)
(* The sync run with subprocesses that hang, crash or cannot be spawned     *)
(***************************************************************************)
MaxFaults == 1    \* most executor calls of a run that end otherwise than by
                  \* the subprocess closing in time with the account's answer

\* exit codes of a snow subprocess that broke off: null (ended by a signal)
\* and codes of its own
CrashCodes == {NullCode, 2, 124}

Faults ==
    Cardinality({i \in 1..Len(procs) :
                   \/ procs[i].timer = "fired"
                   \/ procs[i].event = "error"
                   \/ procs[i].event = "close" /\ procs[i].code \in CrashCodes})

Pending ==
    /\ pc = "awaiting"
    /\ request.tool = "sync_objects"
    /\ procs[Len(procs)].alive
    /\ procs[Len(procs)].timer = "set"
    /\ Faults < MaxFaults

\* the timer of the pending call fires before the subprocess has closed
TimerFires ==
    /\ Pending
    /\ procs' = [procs EXCEPT ![Len(procs)] = OnTimeout(@)]
    /\ executor' = Settled(procs'[Len(procs)])
    /\ pc' = "resumed"
    /\ UNCHANGED <<fnVars, request, config, execLog, response, walkVars>>

\* a subprocess that was sent SIGTERM ends, at whatever time it does
SignalledCloses ==
    /\ \E i \in 1..Len(procs) :
           /\ procs[i].alive
           /\ procs[i].signalled
           /\ procs' = [procs EXCEPT ![i] = OnClose(@, NullCode, "", "")]
    /\ UNCHANGED <<fnVars, pc, request, config, executor, execLog, response, walkVars>>

\* the subprocess of the pending call cannot be spawned: the error event
SpawnFails ==
    /\ Pending
    /\ procs' = [procs EXCEPT ![Len(procs)] = OnError(@, "spawn snow ENOENT")]
    /\ executor' = Settled(procs'[Len(procs)])
    /\ pc' = "resumed"
    /\ UNCHANGED <<fnVars, request, config, execLog, response, walkVars>>

\* the subprocess of the pending call breaks off before the timer fires
SnowCLICrashes ==
    /\ Pending
    /\ \E code \in CrashCodes :
           procs' = [procs EXCEPT ![Len(procs)] = OnClose(@, code, "", "Aborted")]
    /\ executor' = Settled(procs'[Len(procs)])
    /\ pc' = "resumed"
    /\ UNCHANGED <<fnVars, request, config, execLog, response, walkVars>>

\* the runs looked at: databases alone, and databases with their schemas
ShallowInputs ==
    {("includeSchemas" :> FALSE) @@ TargetOnly,
     ("includeTables" :> FALSE) @@ ("includeViews" :> FALSE) @@ TargetOnly}

InitTimeout ==
    /\ call = NoCall
    /\ ret = NoRet
    /\ pc = "called"
    /\ request \in {[tool |-> "sync_objects", input |-> i] : i \in ShallowInputs}
    /\ config \in Configs
    /\ executor = [kind |-> "none"]
    /\ execLog = <<>>
    /\ response = [kind |-> "none"]
    /\ remote = [unavailable |-> {}]
    /\ env = NoEnv
    /\ todo = <<>>
    /\ syncResults = <<>>
    /\ files = NoFiles
    /\ fsLog = <<>>
    /\ previous = [runs |-> 0, files |-> NoFiles]
    /\ procs = <<>>

NextTimeout ==
    \/ SyncObjectsTool
    \/ SyncList
    \/ SyncObject
    \/ SnowCLIResolves
    \/ SyncListed
    \/ SyncFetched
    \/ SyncWriteFails
    \/ SyncFinish
    \/ SyncIndexFails
    \/ TimerFires
    \/ SignalledCloses
    \/ SpawnFails
    \/ SnowCLICrashes

SpecTimeout == InitTimeout /\ [][NextTimeout]_vars

(***************************************************************************)
(* The staleness check                                                     *)
(***************************************************************************)
\* the printable ASCII characters from code 32 to 95 and from 97 to 125
FromSpace == " !\"#$%&'()*+,-./0123456789:;<=>?@ABCDEFGHIJKLMNOPQRSTUVWXYZ[\\]^_"
FromLowerA == "abcdefghijklmnopqrstuvwxyz{|}"

\* String.prototype.charCodeAt for one character
charCodeAt(c) ==
    IF c \in CharsOf(FromSpace) THEN 31 + LetterIndex(FromSpace, c)
    ELSE IF c \in CharsOf(FromLowerA) THEN 96 + LetterIndex(FromLowerA, c)
    ELSE IF c = "\t" THEN 9
    ELSE IF c = "\n" THEN 10
    ELSE IF c = "\f" THEN 12
    ELSE IF c = "\r" THEN 13
    ELSE 126

\* a 32-bit integer as its two 16-bit halves
Half == 65536

\* hash = ((hash << 5) - hash) + char; hash = hash & hash: 31 * hash + char
\* cut to 32 bits
HashStep(hash, char) ==
    LET low == hash[2] * 31 + char
    IN  <<(hash[1] * 31 + low \div Half) % Half, low % Half>>

\* for (let i = 0; i < content.length; i++): the loop as a function of the
\* hash so far and the count i of characters taken, each step's hash
\* computed before the next step starts
HashFrom(content) ==
    LET loop[at \in (0..(Half - 1)) \X (0..(Half - 1)) \X (0..Len(content))] ==
            IF at[3] = Len(content) THEN <<at[1], at[2]>>
            ELSE LET hash == HashStep(<<at[1], at[2]>>,
                                      charCodeAt(Ch(content, at[3] + 1)))
                 IN  loop[<<hash[1], hash[2], at[3] + 1>>]
    IN  loop[<<0, 0, 0>>]

HexDigits == "0123456789abcdef"

RECURSIVE Hex(_)
Hex(n) ==
    IF n < 16 THEN Ch(HexDigits, n + 1)
    ELSE Hex(n \div 16) \o Ch(HexDigits, (n % 16) + 1)

RECURSIVE PadStart(_, _)
PadStart(s, width) == IF Len(s) >= width THEN s ELSE PadStart("0" \o s, width)

\* Number.prototype.toString(16) of a 32-bit integer: a minus sign and the
\* magnitude when the sign bit is set
toString16(hash) ==
    LET negative == hash[1] >= Half \div 2
        low == IF negative THEN (Half - hash[2]) % Half ELSE hash[2]
        high == IF negative
                THEN (Half - 1 - hash[1] + (IF hash[2] = 0 THEN 1 ELSE 0)) % Half
                ELSE hash[1]
    IN  (IF negative THEN "-" ELSE "")
        \o (IF high = 0 THEN Hex(low) ELSE Hex(high) \o PadStart(Hex(low), 4))

simpleHash(content) == toString16(HashFrom(content))

\* CheckStalenessSchema.safeParse: three required strings; database and
\* schema left out are undefined, which the tool treats as ''
CheckStalenessSchema(input) ==
    [errors |-> [i \in 1..Cardinality({"objectName", "objectType", "localPath"}
                                        \ DOMAIN input) |-> "Required"],
     data |-> [k \in {"objectName", "objectType", "localPath", "database", "schema"} |->
                 IF k \in DOMAIN input THEN input[k] ELSE ""]]

fullObjectName(data) ==
    IF data.database # "" \/ data.schema # ""
    THEN data.database \o "." \o data.schema \o "." \o data.objectName
    ELSE data.objectName

\* entries of the file-system log of the staleness check
StatCall(path, ok) == [op |-> "stat", path |-> path, ok |-> ok]

ReadCall(path, ok) == [op |-> "readFile", path |-> path, ok |-> ok]

\* stat resolves for whatever is at the path
fileExists(fs, path) == path \in DOMAIN fs

\* readFile resolves for a regular file alone
Readable(fs, path) == fs[path].kind = "ddl"

StaleData == CheckStalenessSchema(request.input).data

\* checkStalenessTool up to its await of getDDL, or to an early return
CheckStalenessTool ==
    /\ pc = "called"
    /\ request.tool = "check_staleness"
    /\ LET parsed == CheckStalenessSchema(request.input)
           exclusionChecker == createExclusionChecker(config.exclusions.patterns,
                                                      config.exclusions.objectTypes)
       IN  IF parsed.errors # <<>>
           THEN /\ response' = createErrorResponse("INVALID_INPUT",
                                   JoinStrings(parsed.errors, ", "), "E5000")
                /\ pc' = "done"
                /\ UNCHANGED <<execLog, procs>>
           ELSE IF check(exclusionChecker, fullObjectName(parsed.data)).isExcluded
           THEN /\ response' = createErrorResponse("EXCLUDED_OBJECT",
                                   "Object '" \o fullObjectName(parsed.data)
                                   \o "' matches exclusion pattern", "E5001")
                /\ pc' = "done"
                /\ UNCHANGED <<execLog, procs>>
           ELSE /\ execLog' = Append(execLog,
                       getDDLArgs(parsed.data.objectType, parsed.data.objectName,
                                  parsed.data.database, parsed.data.schema))
                /\ procs' = Append(procs, Spawned)
                /\ pc' = "awaiting"
                /\ UNCHANGED response
    /\ UNCHANGED <<fnVars, request, config, executor, walkVars>>

\* what the tool answers when both texts are at hand
StalenessResult(data, currentDDL, localDDL) ==
    LET currentHash == simpleHash(currentDDL)
        localHash == simpleHash(localDDL)
        isStale == currentHash # localHash
    IN  [kind |-> "result", isStale |-> isStale, objectName |-> fullObjectName(data),
         objectType |-> data.objectType, localPath |-> data.localPath,
         currentHash |-> currentHash, localHash |-> localHash,
         reason |-> IF isStale THEN "DDL differs from remote" ELSE "DDL matches remote"]

CheckStalenessFetched_fileFirst ==
    /\ pc = "resumed"
    /\ request.tool = "check_staleness"
    /\ LET data == StaleData
           currentDDL == getDDL(executor)
           localExists == fileExists(files, data.localPath)
       IN  IF ~localExists
           THEN /\ fsLog' = Append(fsLog, StatCall(data.localPath, FALSE))
                /\ response' = [kind |-> "result", isStale |-> TRUE,
                                objectName |-> fullObjectName(data),
                                objectType |-> data.objectType,
                                localPath |-> data.localPath,
                                reason |-> "Local file does not exist"]
           ELSE IF currentDDL = ""
           THEN /\ response' = createErrorResponse("OBJECT_NOT_FOUND",
                                   "Could not retrieve DDL for " \o data.objectType
                                   \o " " \o fullObjectName(data), "E5002")
                /\ fsLog' = Append(fsLog, StatCall(data.localPath, TRUE))
           ELSE IF ~Readable(files, data.localPath)
           THEN /\ fsLog' = fsLog \o <<StatCall(data.localPath, TRUE),
                                        ReadCall(data.localPath, FALSE)>>
                /\ response' = createErrorResponse("STALENESS_CHECK_ERROR",
                                   "EISDIR: illegal operation on a directory, read",
                                   "E5003")
           ELSE /\ fsLog' = fsLog \o <<StatCall(data.localPath, TRUE),
                                        ReadCall(data.localPath, TRUE)>>
                /\ response' = StalenessResult(data, currentDDL,
                                               files[data.localPath].text)
    /\ pc' = "done"
    /\ UNCHANGED <<fnVars, procs, request, config, executor, execLog, remote, env, todo,
                   syncResults, files, previous>>

\* checkStalenessTool after the await of getDDL: the empty DDL, the missing
\* local file, the local file that cannot be read, the comparison
CheckStalenessFetched ==
    /\ pc = "resumed"
    /\ request.tool = "check_staleness"
    /\ LET data == StaleData
           currentDDL == getDDL(executor)
           localExists == fileExists(files, data.localPath)
       IN  IF currentDDL = ""
           THEN /\ response' = createErrorResponse("OBJECT_NOT_FOUND",
                                   "Could not retrieve DDL for " \o data.objectType
                                   \o " " \o fullObjectName(data), "E5002")
                /\ UNCHANGED fsLog
           ELSE IF ~localExists
           THEN /\ fsLog' = Append(fsLog, StatCall(data.localPath, FALSE))
                /\ response' = [kind |-> "result", isStale |-> TRUE,
                                objectName |-> fullObjectName(data),
                                objectType |-> data.objectType,
                                localPath |-> data.localPath,
                                reason |-> "Local file does not exist"]
           ELSE IF ~Readable(files, data.localPath)
           THEN /\ fsLog' = fsLog \o <<StatCall(data.localPath, TRUE),
                                        ReadCall(data.localPath, FALSE)>>
                /\ response' = createErrorResponse("STALENESS_CHECK_ERROR",
                                   "EISDIR: illegal operation on a directory, read",
                                   "E5003")
           ELSE /\ fsLog' = fsLog \o <<StatCall(data.localPath, TRUE),
                                        ReadCall(data.localPath, TRUE)>>
                /\ response' = StalenessResult(data, currentDDL,
                                               files[data.localPath].text)
    /\ pc' = "done"
    /\ UNCHANGED <<fnVars, procs, request, config, executor, execLog, remote, env, todo,
                   syncResults, files, previous>>

(***************************************************************************)
(* Requests and local files of the staleness check                         *)
(***************************************************************************)
StaleObject(name, type, path, database, schema) ==
    [objectName |-> name, objectType |-> type, localPath |-> path,
     database |-> database, schema |-> schema]

StaleInputs ==
    {StaleObject("users", "table", "repo/DEV/PUBLIC/tables/users.sql", "DEV", "PUBLIC"),
     StaleObject("secrets", "table", "repo/DEV/PUBLIC/tables/users.sql", "PROD_DB", "PUBLIC"),
     StaleObject("nothing", "table", "repo/DEV/PUBLIC/tables/users.sql", "DEV", "PUBLIC"),
     StaleObject("s_land", "stage", "repo/DEV/_database.sql", "DEV", "PUBLIC"),
     [objectName |-> "DEV", objectType |-> "database", localPath |-> "repo/DEV/_database.sql"],
     [objectName |-> "PROD_DB", objectType |-> "database",
      localPath |-> "repo/DEV/_database.sql"],
     [objectName |-> "users", objectType |-> "table"]}

StaleRequests == {[tool |-> "check_staleness", input |-> i] : i \in StaleInputs}

LocalPaths == {"repo/DEV/PUBLIC/tables/users.sql", "repo/DEV/_database.sql"}

\* what may lie at a local path: a text that is the remote DDL, texts that
\* are not, a directory
LocalContents ==
    {[kind |-> "ddl", text |-> t] :
        t \in {"create table DEV.PUBLIC.users", "create table DEV.PUBLIC.usfSs",
               "create table DEV.PUBLIC.user", "create database DEV",
               "create database DEW", ""}}
    \cup {[kind |-> "directory"]}

LocalFiles == {NoFiles} \cup {p :> c : p \in LocalPaths, c \in LocalContents}

InitStale ==
    /\ call = NoCall
    /\ ret = NoRet
    /\ pc = "idle"
    /\ request = [tool |-> "none"]
    /\ config \in Configs
    /\ executor = [kind |-> "none"]
    /\ execLog = <<>>
    /\ response = [kind |-> "none"]
    /\ remote \in Remotes
    /\ env = NoEnv
    /\ todo = <<>>
    /\ syncResults = <<>>
    /\ files \in LocalFiles
    /\ fsLog = <<>>
    /\ previous = [runs |-> 0, files |-> NoFiles]
    /\ procs = <<>>

ReceiveStalenessRequest ==
    /\ pc = "idle"
    /\ request' \in StaleRequests
    /\ pc' = "called"
    /\ UNCHANGED <<fnVars, config, executor, execLog, response, syncVars>>

NextStale ==
    \/ ReceiveStalenessRequest
    \/ CheckStalenessTool
    \/ SnowCLIResolves
    \/ CheckStalenessFetched

SpecStale == InitStale /\ [][NextStale]_vars

(***************************************************************************)
(* The configuration cache                                                 *)
(***************************************************************************)
\* cachedConfig = null
NoConfig == [kind |-> "null"]

\* readFileSync, parse and ProjectConfigSchema.parse: a file that is there
\* and holds a valid project description gives the description, anything
\* else throws
Validated(fs, path) ==
    IF path \in DOMAIN fs /\ fs[path].kind = "yaml" /\ fs[path].valid
    THEN Ok(fs[path].value) ELSE Throws

ReadSync(path, ok) == [op |-> "readFileSync", path |-> path, ok |-> ok]

\* the path loadConfig reads: configPath || SDAIDF_CONFIG_PATH || './project.yaml'
ConfigPathOf(configPath) ==
    IF configPath # "" THEN configPath
    ELSE IF env.SDAIDF_CONFIG_PATH # "" THEN env.SDAIDF_CONFIG_PATH
    ELSE "./project.yaml"

\* the try block of loadConfig: the patterns become RegExp objects with the
\* i flag, the connection comes from the environment first
ConfigFrom(validated) ==
    [exclusions |-> [patterns |-> [i \in 1..Len(validated.exclusions.patterns) |->
                                     Re(validated.exclusions.patterns[i])],
                     objectTypes |-> validated.exclusions.objectTypes],
     guardrail |-> validated.guardrail,
     snowcli |-> [connection |->
                    IF env.SNOWFLAKE_CONNECTION # "" THEN env.SNOWFLAKE_CONNECTION
                    ELSE IF validated.snowcli.connection # ""
                    THEN validated.snowcli.connection
                    ELSE "dev"]]

\* the catch block of loadConfig
defaultConfig ==
    [exclusions |-> DEFAULT_EXCLUSIONS, guardrail |-> DEFAULT_CONFIG.guardrail,
     snowcli |-> [connection |-> "dev"]]

\* loadConfig(configPath): the cache after the call, what it returns and
\* the file it read, if any
loadConfig_dropDefault(cached, configPath) ==
    IF cached # NoConfig
    THEN [cache |-> cached, value |-> cached, reads |-> <<>>]
    ELSE LET path == ConfigPathOf(configPath)
             validated == Validated(files, path)
         IN  IF validated.ok
             THEN [cache |-> ConfigFrom(validated.value),
                   value |-> ConfigFrom(validated.value),
                   reads |-> <<ReadSync(path, TRUE)>>]
             ELSE [cache |-> NoConfig, value |-> defaultConfig,
                   reads |-> <<ReadSync(path, path \in DOMAIN files)>>]

loadConfig(cached, configPath) ==
    IF cached # NoConfig
    THEN [cache |-> cached, value |-> cached, reads |-> <<>>]
    ELSE LET path == ConfigPathOf(configPath)
             validated == Validated(files, path)
         IN  IF validated.ok
             THEN [cache |-> ConfigFrom(validated.value),
                   value |-> ConfigFrom(validated.value),
                   reads |-> <<ReadSync(path, TRUE)>>]
             ELSE [cache |-> defaultConfig, value |-> defaultConfig,
                   reads |-> <<ReadSync(path, path \in DOMAIN files)>>]

getConfig(cached) ==
    IF cached = NoConfig THEN loadConfig(cached, "")
    ELSE [cache |-> cached, value |-> cached, reads |-> <<>>]

(***************************************************************************)
(* Calls, files and environments of the configuration cache run            *)
(***************************************************************************)
MaxCalls == 4    \* most calls of loadConfig, getConfig and clearConfigCache

ProjectYaml ==
    [kind |-> "yaml", valid |-> TRUE,
     value |-> [exclusions |-> [patterns |-> <<"_audit$", "^prod_">>, objectTypes |-> <<>>],
                guardrail |-> [maxScalarRows |-> 10],
                snowcli |-> [connection |-> "analytics"]]]

TeamYaml ==
    [kind |-> "yaml", valid |-> TRUE,
     value |-> [exclusions |-> [patterns |-> <<"_tmp$">>, objectTypes |-> <<"STREAM">>],
                guardrail |-> [maxScalarRows |-> 50],
                snowcli |-> [connection |-> ""]]]

BrokenYaml == [kind |-> "yaml", valid |-> FALSE]

ConfigFiles ==
    {("./project.yaml" :> ProjectYaml) @@ ("team.yaml" :> TeamYaml)
        @@ ("broken.yaml" :> BrokenYaml),
     "team.yaml" :> TeamYaml,
     "./project.yaml" :> BrokenYaml}

ConfigPaths == {"", "team.yaml", "broken.yaml", "missing.yaml"}

Envs == {NoEnv,
         [SDAIDF_CONFIG_PATH |-> "team.yaml", SNOWFLAKE_CONNECTION |-> ""],
         [SDAIDF_CONFIG_PATH |-> "", SNOWFLAKE_CONNECTION |-> "ci"]}

InitConfig ==
    /\ call = NoCall
    /\ ret = NoRet
    /\ pc = "idle"
    /\ request = [tool |-> "none"]
    /\ config = NoConfig
    /\ executor = [kind |-> "none"]
    /\ execLog = <<>>
    /\ response = [kind |-> "none"]
    /\ remote = [kind |-> "none"]
    /\ env \in Envs
    /\ todo = <<>>
    /\ syncResults = <<>>
    /\ files \in ConfigFiles
    /\ fsLog = <<>>
    /\ previous = [runs |-> 0, files |-> NoFiles]
    /\ procs = <<>>

\* a call of loadConfig; execLog is the list of the calls made
LoadConfig ==
    /\ Len(execLog) < MaxCalls
    /\ \E configPath \in ConfigPaths :
           LET r == loadConfig(config, configPath)
           IN  /\ call' = [fn |-> "loadConfig", args |-> <<configPath>>]
               /\ execLog' = Append(execLog, call')
               /\ config' = r.cache
               /\ ret' = [kind |-> "value", value |-> r.value]
               /\ fsLog' = fsLog \o r.reads
    /\ UNCHANGED <<pc, request, executor, response, remote, env, todo, syncResults, files,
                   previous, procs>>

GetConfig ==
    /\ Len(execLog) < MaxCalls
    /\ LET r == getConfig(config)
       IN  /\ call' = [fn |-> "getConfig", args |-> <<>>]
           /\ execLog' = Append(execLog, call')
           /\ config' = r.cache
           /\ ret' = [kind |-> "value", value |-> r.value]
           /\ fsLog' = fsLog \o r.reads
    /\ UNCHANGED <<pc, request, executor, response, remote, env, todo, syncResults, files,
                   previous, procs>>

ClearConfigCache ==
    /\ Len(execLog) < MaxCalls
    /\ call' = [fn |-> "clearConfigCache", args |-> <<>>]
    /\ execLog' = Append(execLog, call')
    /\ config' = NoConfig
    /\ ret' = [kind |-> "undefined"]
    /\ UNCHANGED <<pc, request, executor, response, remote, env, todo, syncResults, files,
                   fsLog, previous, procs>>

NextConfig == LoadConfig \/ GetConfig \/ ClearConfigCache

SpecConfig == InitConfig /\ [][NextConfig]_vars

(***************************************************************************)
(* Properties of the index and of repeated runs                            *)
(***************************************************************************)
WithStatus(records, status) ==
    {i \in 1..Len(records) : records[i].status = status}

IndexWrites == {i \in 1..Len(fsLog) : fsLog[i].op = "writeFile" /\ fsLog[i].path = IndexPath}

\* C23: the index written at the end of a sync run and the tool response
\* agree with the record list: objectCount (synced), skippedCount (skipped)
\* and errorCount (errors) are the numbers of records with that status and
\* sum to the length of objects; the index is written once, after the whole
\* walk, and replaces the index of an earlier run.
C23_IndexAgreesWithRecords ==
    SyncRunning =>
        /\ response.kind # "result" => \A i \in IndexWrites : ~fsLog[i].ok
        /\ response.kind = "result" =>
               LET index == files[IndexPath]
               IN  /\ index.kind = "index"
                   /\ index.objects = syncResults
                   /\ response.results = syncResults
                   /\ index.objectCount = Cardinality(WithStatus(syncResults, "synced"))
                   /\ index.skippedCount = Cardinality(WithStatus(syncResults, "skipped"))
                   /\ index.errorCount = Cardinality(WithStatus(syncResults, "error"))
                   /\ response.synced = index.objectCount
                   /\ response.skipped = index.skippedCount
                   /\ response.errors = index.errorCount
                   /\ index.objectCount + index.skippedCount + index.errorCount
                        = Len(index.objects)
                   /\ IndexWrites = {Len(fsLog)}
                   /\ todo = <<>>

\* a second run has ended and its index stands where that of the first
\* stood, with another lastSync, synced and skipped objects
C23_Witness ==
    /\ request.tool = "sync_objects"
    /\ response.kind = "result"
    /\ previous.runs = 1
    /\ IndexPath \in DOMAIN previous.files
    /\ files[IndexPath].lastSync # previous.files[IndexPath].lastSync
    /\ files[IndexPath].objectCount > 1
    /\ files[IndexPath].skippedCount > 1

WithoutLastSync(index) == [index EXCEPT !.lastSync = ""]

\* C28: a second sync run with the same target directory, options,
\* exclusion rules and account leaves the files the first run left, with
\* the same contents, and an index that differs from the first at most in
\* lastSync; the path of every synced object is given by the target
\* directory, its category and its database, schema and name.
C28_ResyncLeavesSameFiles ==
    (request.tool = "sync_objects" /\ pc = "done" /\ response.kind = "result") =>
        /\ \A i \in WithStatus(syncResults, "synced") :
              syncResults[i].path = FileOf(syncResults[i])
        /\ previous.runs > 0 =>
              /\ DOMAIN files = DOMAIN previous.files
              /\ \A p \in DOMAIN files \ {IndexPath} : files[p] = previous.files[p]
              /\ WithoutLastSync(files[IndexPath])
                   = WithoutLastSync(previous.files[IndexPath])

\* a second run has ended after a first that wrote the files of several
\* objects
C28_Witness ==
    /\ request.tool = "sync_objects"
    /\ pc = "done"
    /\ response.kind = "result"
    /\ previous.runs = 1
    /\ Cardinality(DOMAIN previous.files) > 4
    /\ Cardinality(WithStatus(syncResults, "synced")) > 3

(***************************************************************************)
(* Properties of the executor calls                                        *)
(***************************************************************************)
Alive == {i \in 1..Len(procs) : procs[i].alive}

\* C24: at every moment of a sync run at most one snow subprocess is alive:
\* the next list or DDL call is started only after the subprocess of the
\* call before it has ended, also when that call ended by timeout.
C24_OneSubprocessAlive ==
    SyncRunning => Cardinality(Alive) <= 1

\* C25: every executor call of the run has one subprocess and one result; a
\* call whose timer fired sent the signal and gave exit code 124; a call
\* whose subprocess closed or failed first had its timer cleared, sent no
\* signal and gave the outcome of the subprocess; exit code 124 is given only
\* by a call whose timer fired; no call is made twice.
C25_OneResultPerCall ==
    SyncRunning =>
        /\ Len(procs) = Len(execLog)
        /\ \A i \in 1..Len(procs) :
              LET p == procs[i]
              IN  /\ (i < Len(procs) \/ pc # "awaiting") => p.result.settled
                  /\ p.resolves = 0 <=> ~p.result.settled
                  /\ p.timer = "fired" => (p.signalled /\ p.result.exitCode = 124)
                  /\ p.timer = "cleared" =>
                         /\ ~p.signalled
                         /\ p.resolves = 1
                         /\ p.result.exitCode =
                               IF p.event = "error" \/ p.code = NullCode THEN 1 ELSE p.code
                  /\ p.timer = "set" => (p.alive /\ ~p.signalled /\ ~p.result.settled)
                  /\ (p.result.settled /\ p.result.exitCode = 124) => p.timer = "fired"

(***************************************************************************)
(* Properties of the staleness check                                       *)
(***************************************************************************)
StaleChecked ==
    /\ request.tool = "check_staleness"
    /\ CheckStalenessSchema(request.input).errors = <<>>
    /\ pc \notin {"idle", "called"}

StaleExcluded ==
    check(createExclusionChecker(config.exclusions.patterns, config.exclusions.objectTypes),
          fullObjectName(StaleData)).isExcluded

HasHashes == {"currentHash", "localHash"} \cap DOMAIN response # {}

\* C26: checkStaleness reports isStale = false exactly when the text of the
\* local file equals the current remote DDL text, and isStale = true
\* whenever the two differ: two different texts are never reported as
\* matching.
C26_StaleIffTextsDiffer ==
    (StaleChecked /\ pc = "done" /\ response.kind = "result" /\ HasHashes)
    => (response.isStale <=> files[StaleData.localPath].text # getDDL(executor))

\* C27: checkStaleness takes its steps in order and stops at the first that
\* applies: an excluded full name gives EXCLUDED_OBJECT with no executor
\* call and no file access; an empty or failed DDL fetch gives
\* OBJECT_NOT_FOUND with no file access; an absent local file gives
\* isStale = true, the reason "Local file does not exist" and no hashes;
\* only otherwise is the local file read and are the digests compared.
C27_StepsInOrder ==
    StaleChecked =>
        LET path == StaleData.localPath
        IN  /\ StaleExcluded =>
                  /\ pc = "done"
                  /\ response.kind = "error" /\ response.error = "EXCLUDED_OBJECT"
                  /\ execLog = <<>>
                  /\ fsLog = <<>>
            /\ ~StaleExcluded => Len(execLog) = 1
            /\ pc # "done" => fsLog = <<>>
            /\ (~StaleExcluded /\ pc = "done") =>
                  IF getDDL(executor) = ""
                  THEN /\ response.kind = "error" /\ response.error = "OBJECT_NOT_FOUND"
                       /\ fsLog = <<>>
                  ELSE IF path \notin DOMAIN files
                  THEN /\ response.kind = "result"
                       /\ response.isStale
                       /\ response.reason = "Local file does not exist"
                       /\ ~HasHashes
                       /\ fsLog = <<StatCall(path, FALSE)>>
                  ELSE /\ fsLog[1] = StatCall(path, TRUE)
                       /\ Len(fsLog) = 2
                       /\ fsLog[2].op = "readFile"
                       /\ fsLog[2].path = path
                       /\ fsLog[2].ok =>
                             /\ response.kind = "result"
                             /\ response.currentHash = simpleHash(getDDL(executor))
                             /\ response.localHash = simpleHash(files[path].text)
                             /\ response.isStale
                                  <=> response.currentHash # response.localHash

\* the remote DDL could not be fetched and the local file is not there
\* either: the answer is that of the earlier step
C27_Witness ==
    /\ StaleChecked
    /\ pc = "done"
    /\ ~StaleExcluded
    /\ getDDL(executor) = ""
    /\ StaleData.localPath \notin DOMAIN files
    /\ response.kind = "error"

(***************************************************************************)
(* Properties of the configuration cache                                   *)
(***************************************************************************)
Loads == call'.fn \in {"loadConfig", "getConfig"}

LoadFailed(read) ==
    \/ read.path \notin DOMAIN files
    \/ ~files[read.path].valid

\* C29: the cache is filled by the first loadConfig or getConfig call and
\* returned unchanged by every later one, whatever the path argument, until
\* clearConfigCache; after clearConfigCache the next call loads afresh.  A
\* load that fails does not throw: it caches and returns the default
\* configuration (patterns ^PROD_, _PROD$, _BACKUP$, _ARCHIVE$, ^SYSTEM_ and
\* type SNAPSHOT), so the cache is never empty after a load.
C29_CacheUntilCleared ==
    [][/\ (Loads /\ config # NoConfig) =>
              /\ config' = config
              /\ ret' = [kind |-> "value", value |-> config]
              /\ fsLog' = fsLog
       /\ (Loads /\ config = NoConfig) =>
              /\ Len(fsLog') = Len(fsLog) + 1
              /\ config' # NoConfig
              /\ ret' = [kind |-> "value", value |-> config']
              /\ LoadFailed(fsLog'[Len(fsLog')]) =>
                     /\ config'.exclusions.patterns
                          = <<Re("^PROD_"), Re("_PROD$"), Re("_BACKUP$"),
                              Re("_ARCHIVE$"), Re("^SYSTEM_")>>
                     /\ config'.exclusions.objectTypes = <<"SNAPSHOT">>
       /\ call'.fn = "clearConfigCache" => config' = NoConfig
      ]_vars

\* the cache was filled, cleared and filled again from another file, the
\* second load failed, and a later loadConfig naming a third path got the
\* cached default
C29_Witness ==
    /\ Len(execLog) = MaxCalls
    /\ Len(fsLog) = 2
    /\ fsLog[1].path # fsLog[2].path
    /\ LoadFailed(fsLog[2])
    /\ call.fn = "loadConfig"
    /\ call.args[1] \notin {"", fsLog[2].path}
    /\ config = defaultConfig
    /\ ret = [kind |-> "value", value |-> config]

(***************************************************************************)
(* The exclusion check of the discovery tools                              *)
(***************************************************************************)
\* describeObjectTool and getDDLTool after parsing: the check is made on
\* objectName as given, and an excluded name is answered EXCLUDED_OBJECT
\* before any executor call
describeObjectTool_excluded(cfg, objectName) ==
    check(createExclusionChecker(cfg.exclusions.patterns, cfg.exclusions.objectTypes),
          objectName).isExcluded

getDDLTool_excluded(cfg, objectName) ==
    check(createExclusionChecker(cfg.exclusions.patterns, cfg.exclusions.objectTypes),
          objectName).isExcluded

(***************************************************************************)
(* Properties across the tools                                             *)
(***************************************************************************)
\* the tables, views, functions, procedures, stages and tasks of the account
\* that get_ddl or describe_object refuses by their name, for each
\* configuration
RefusedByName ==
    [c \in Configs |->
        {o \in AccountObjects :
            /\ o.type \in Range(LeafTypes)
            /\ \/ getDDLTool_excluded(c, BaseName(o.name))
               \/ describeObjectTool_excluded(c, BaseName(o.name))}]

\* C30: the exclusion policy is the same on every path to the DDL of an
\* object: a table, view, function, procedure, stage or task whose name
\* get_ddl or describe_object rejects as excluded gets no DDL file from a
\* sync run, also when its database and schema are not excluded.
C30_SyncWritesNoRefusedObject ==
    SyncRunning => \A o \in RefusedByName[config] : FileOf(o) \notin DOMAIN files

====
